---- MODULE Spec2Model ----
(***************************************************************************)
(* Model of the nostree document synchronization engine:                   *)
(*   - the useLinkTree hook (src/src/hooks/useLinkTree.ts): authoritative  *)
(*     document, optimistic link projection, initial query, mutations and  *)
(*     their publishes;                                                    *)
(*   - publishEvent / createNostreeEvent of the relay library              *)
(*     (src/src/components/ui/Card.tsx, second half);                      *)
(*   - the newest-event selection used by every loader.                    *)
(***************************************************************************)
EXTENDS Integers, Sequences, FiniteSets, Bags, TLC

(***************************************************************************)
(* Bounds of the model.                                                    *)
(***************************************************************************)
MaxOps == 2
MaxPending == 1
MaxEvents == 2
MaxTs == 2
MaxRoot == 2
MaxGroupLen == 2
MaxCacheCalls == 3
MaxViewerSteps == 4
MaxSlugEvents == 2
MaxStored == 1

(***************************************************************************)
(* Program constants.                                                      *)
(***************************************************************************)
DEFAULT_SLUG == "default"
NOSTREE_PREFIX == "nostree"
LEGACY_DTAG == "nostree-data-v1"
DEFAULT_RELAYS == {"wss://relay.damus.io", "wss://nos.lol", "wss://relay.nostr.band", "wss://purplepag.es"}
WRITE_RELAYS == {"wss://relay.damus.io", "wss://nos.lol", "wss://relay.nostr.band"}

NULL == "null"

(***************************************************************************)
(* Documents.  A LinkItem is a Link or a LinkGroup; both are records of    *)
(* the same shape here, a Link having type "link" and no nested links.     *)
(***************************************************************************)
MkLink(id, visible) == [type |-> "link", id |-> id, visible |-> visible, collapsed |-> FALSE, links |-> <<>>]

MkGroup(id, links) == [type |-> "group", id |-> id, visible |-> TRUE, collapsed |-> FALSE, links |-> links]

IsGroup(item) == item.type = "group"

\* the theme mode of the document a mutation starts from when data is null
NewTreeTheme == "light"

Themes == {"light", "dark"}

\* data === null
NoData == [version |-> "null"]

\* profile is <<>> when the document has no profile override, <<p>> when it
\* has the override p; treeMeta has a title only when one is set; createdAt
\* (a clock reading) is left out
MkData(slug, links, theme) == [version |-> "2.0", treeMeta |-> [slug |-> slug, isDefault |-> (slug = DEFAULT_SLUG)], profile |-> <<>>, links |-> links, socials |-> <<>>, theme |-> theme]

\* a legacy document: version "1.0", no treeMeta
MkLegacy(profile, links, socials, theme) == [version |-> "1.0", profile |-> profile, links |-> links, socials |-> socials, theme |-> theme]

\* the document publishData and updateTheme start from when data is null
EmptyData(slug) == MkData(slug, <<>>, NewTreeTheme)

\* data?.links || []
LinksOf(d) == IF d = NoData THEN <<>> ELSE d.links

(***************************************************************************)
(* Sequence helpers (Array.prototype.map / filter / find).                 *)
(***************************************************************************)
Range(s) == {s[i] : i \in 1..Len(s)}

HasId(links, id) == \E i \in 1..Len(links) : links[i].id = id

WithoutId(links, id) == SelectSeq(links, LAMBDA l : l.id # id)

FindById(links, id) == links[CHOOSE i \in 1..Len(links) : links[i].id = id /\ \A j \in 1..(i - 1) : links[j].id # id]

\* every Link of a links array, root links and links nested in groups
RECURSIVE AllLinks(_)
AllLinks(items) == IF items = <<>> THEN <<>> ELSE (IF IsGroup(Head(items)) THEN Head(items).links ELSE <<Head(items)>>) \o AllLinks(Tail(items))

RECURSIVE SeqToBag(_)
SeqToBag(s) == IF s = <<>> THEN EmptyBag ELSE SetToBag({Head(s)}) (+) SeqToBag(Tail(s))

LinkBag(items) == SeqToBag(AllLinks(items))

RootLinks(items) == SelectSeq(items, LAMBDA it : ~IsGroup(it))

Groups(items) == SelectSeq(items, LAMBDA it : IsGroup(it))

GroupIds(items) == {it.id : it \in Range(Groups(items))}

LinkIds(items) == {l.id : l \in Range(AllLinks(items))}

(***************************************************************************)
(* move_to_group, shared shape of linkReducer's case and of moveToGroup.   *)
(***************************************************************************)
\* variant: the link is taken out of groups only, the root keeps it
WithoutLinkKeepingRoot(state, linkId) == [i \in 1..Len(state) |-> IF IsGroup(state[i]) /\ HasId(state[i].links, linkId) THEN [state[i] EXCEPT !.links = WithoutId(@, linkId)] ELSE state[i]]

\* the filter(...).map(...) that removes the link from root and from groups
WithoutLink(state, linkId) ==
  LET kept == SelectSeq(state, LAMBDA it : IsGroup(it) \/ it.id # linkId)
  IN [i \in 1..Len(kept) |-> IF IsGroup(kept[i]) /\ HasId(kept[i].links, linkId) THEN [kept[i] EXCEPT !.links = WithoutId(@, linkId)] ELSE kept[i]]

\* the value linkToMove holds after the filter and the map: <<>> is null
LinkToMove(state, linkId) ==
  LET holders == SelectSeq(state, LAMBDA it : IsGroup(it) /\ HasId(it.links, linkId))
      roots == SelectSeq(state, LAMBDA it : ~IsGroup(it) /\ it.id = linkId)
  IN IF holders # <<>> THEN <<FindById(holders[Len(holders)].links, linkId)>>
     ELSE IF roots # <<>> THEN <<roots[Len(roots)]>>
     ELSE <<>>

\* the "add to target" step
AddToTarget(withoutLink, link, groupId) ==
  IF groupId = NULL THEN Append(withoutLink, link)
  ELSE [i \in 1..Len(withoutLink) |-> IF IsGroup(withoutLink[i]) /\ withoutLink[i].id = groupId THEN [withoutLink[i] EXCEPT !.links = Append(@, link)] ELSE withoutLink[i]]

(***************************************************************************)
(* linkReducer: the reducer of the optimistic projection; an action type   *)
(* it has no case for falls to the default, which returns the state.       *)
(***************************************************************************)
linkReducer(state, action) ==
  CASE action.type = "reorder" -> action.links
    [] action.type = "add" -> Append(state, action.link)
    [] action.type = "add_group" -> Append(state, action.group)
    [] action.type = "delete" ->
         LET kept == SelectSeq(state, LAMBDA it : IsGroup(it) \/ it.id # action.id)
         IN [i \in 1..Len(kept) |-> IF IsGroup(kept[i]) THEN [kept[i] EXCEPT !.links = WithoutId(@, action.id)] ELSE kept[i]]
    [] action.type = "update" -> [i \in 1..Len(state) |-> IF IsGroup(state[i]) THEN [state[i] EXCEPT !.links = [k \in 1..Len(@) |-> IF @[k].id = action.link.id THEN action.link ELSE @[k]]] ELSE IF state[i].id = action.link.id THEN action.link ELSE state[i]]
    [] action.type = "update_group" -> [i \in 1..Len(state) |-> IF IsGroup(state[i]) /\ state[i].id = action.group.id THEN action.group ELSE state[i]]
    [] action.type = "toggle_visibility" ->
         [i \in 1..Len(state) |->
            IF IsGroup(state[i])
            THEN IF state[i].id = action.id THEN [state[i] EXCEPT !.visible = ~@]
                 ELSE [state[i] EXCEPT !.links = [k \in 1..Len(@) |-> IF @[k].id = action.id THEN [@[k] EXCEPT !.visible = ~@] ELSE @[k]]]
            ELSE IF state[i].id = action.id THEN [state[i] EXCEPT !.visible = ~@] ELSE state[i]]
    [] action.type = "toggle_group_collapse" -> [i \in 1..Len(state) |-> IF IsGroup(state[i]) /\ state[i].id = action.groupId THEN [state[i] EXCEPT !.collapsed = ~@] ELSE state[i]]
    [] action.type = "reorder_within_group" -> [i \in 1..Len(state) |-> IF IsGroup(state[i]) /\ state[i].id = action.groupId THEN [state[i] EXCEPT !.links = action.links] ELSE state[i]]
    [] action.type = "move_to_group" ->
         IF LinkToMove(state, action.linkId) = <<>> THEN state
         ELSE AddToTarget(WithoutLink(state, action.linkId), LinkToMove(state, action.linkId)[1], action.groupId)
    [] OTHER -> state

\* useOptimistic: the passthrough value with the pending optimistic actions applied
RECURSIVE ApplyAll(_, _)
ApplyAll(state, actions) == IF actions = <<>> THEN state ELSE ApplyAll(linkReducer(state, Head(actions)), Tail(actions))

(***************************************************************************)
(* The links each mutation of the hook computes from data?.links || [].    *)
(***************************************************************************)
addLinkLinks(currentLinks, newLink) == Append(currentLinks, newLink)

addGroupLinks(currentLinks, newGroup) == Append(currentLinks, newGroup)

\* newLinks of updateLink(link)
updateLinkLinks(currentLinks, link) ==
  [i \in 1..Len(currentLinks) |->
     IF IsGroup(currentLinks[i]) THEN [currentLinks[i] EXCEPT !.links = [k \in 1..Len(@) |-> IF @[k].id = link.id THEN link ELSE @[k]]]
     ELSE IF currentLinks[i].id = link.id THEN link ELSE currentLinks[i]]

\* newLinks of deleteLink(id)
deleteLinkLinks(currentLinks, id) ==
  LET kept == SelectSeq(currentLinks, LAMBDA it : IsGroup(it) \/ it.id # id)
  IN [i \in 1..Len(kept) |-> IF IsGroup(kept[i]) THEN [kept[i] EXCEPT !.links = SelectSeq(@, LAMBDA l : l.id # id)] ELSE kept[i]]

\* newLinks of updateGroup(group)
updateGroupLinks(currentLinks, group) == [i \in 1..Len(currentLinks) |-> IF IsGroup(currentLinks[i]) /\ currentLinks[i].id = group.id THEN group ELSE currentLinks[i]]

\* newLinks of toggleGroupCollapse(groupId)
toggleGroupCollapseLinks(currentLinks, groupId) == [i \in 1..Len(currentLinks) |-> IF IsGroup(currentLinks[i]) /\ currentLinks[i].id = groupId THEN [currentLinks[i] EXCEPT !.collapsed = ~@] ELSE currentLinks[i]]

\* newLinks of reorderWithinGroup(groupId, links)
reorderWithinGroupLinks(currentLinks, groupId, newOrder) == [i \in 1..Len(currentLinks) |-> IF IsGroup(currentLinks[i]) /\ currentLinks[i].id = groupId THEN [currentLinks[i] EXCEPT !.links = newOrder] ELSE currentLinks[i]]

\* newLinks of toggleVisibility(id)
toggleVisibilityLinks(currentLinks, id) ==
  [i \in 1..Len(currentLinks) |->
     IF IsGroup(currentLinks[i])
     THEN IF currentLinks[i].id = id THEN [currentLinks[i] EXCEPT !.visible = ~@]
          ELSE [currentLinks[i] EXCEPT !.links = [k \in 1..Len(@) |-> IF @[k].id = id THEN [@[k] EXCEPT !.visible = ~@] ELSE @[k]]]
     ELSE IF currentLinks[i].id = id THEN [currentLinks[i] EXCEPT !.visible = ~@] ELSE currentLinks[i]]

\* variant: the group is removed together with its links
deleteGroupDroppingLinks(currentLinks, id) == SelectSeq(currentLinks, LAMBDA it : ~(IsGroup(it) /\ it.id = id))

\* finalLinks = [...newLinks, ...linksToMove]
deleteGroupLinks(currentLinks, id) ==
  LET hit == SelectSeq(currentLinks, LAMBDA it : IsGroup(it) /\ it.id = id)
      newLinks == SelectSeq(currentLinks, LAMBDA it : ~(IsGroup(it) /\ it.id = id))
      linksToMove == IF hit = <<>> THEN <<>> ELSE hit[Len(hit)].links
  IN newLinks \o linksToMove

\* FALSE is the early return of moveToGroup (if (!linkToMove) return)
moveToGroupFound(currentLinks, linkId) == LinkToMove(currentLinks, linkId) # <<>>

\* variant: the link is put first in the target instead of last
moveToGroupPrepending(currentLinks, linkId, groupId) ==
  LET moved == IF LinkToMove(currentLinks, linkId) = <<>> THEN <<>> ELSE <<LinkToMove(currentLinks, linkId)[1]>>
  IN IF groupId = NULL THEN moved \o WithoutLink(currentLinks, linkId)
     ELSE [i \in 1..Len(WithoutLink(currentLinks, linkId)) |-> IF IsGroup(WithoutLink(currentLinks, linkId)[i]) /\ WithoutLink(currentLinks, linkId)[i].id = groupId THEN [WithoutLink(currentLinks, linkId)[i] EXCEPT !.links = moved \o @] ELSE WithoutLink(currentLinks, linkId)[i]]

\* newLinks of moveToGroup, past the early return
moveToGroupLinks(currentLinks, linkId, groupId) == AddToTarget(WithoutLink(currentLinks, linkId), LinkToMove(currentLinks, linkId)[1], groupId)

(***************************************************************************)
(* publishData / updateTheme: the document that is serialized.             *)
(***************************************************************************)
currentData(d, s) == IF d = NoData THEN EmptyData(s) ELSE d

\* variant: a fresh document is built around the links
updatedLinksDataFromScratch(d, s, newLinks) == MkData(s, newLinks, NewTreeTheme)

\* updatedData = {...currentData, links: newLinks}
updatedLinksData(d, s, newLinks) == [currentData(d, s) EXCEPT !.links = newLinks]

updatedThemeData(d, s, theme) == [currentData(d, s) EXCEPT !.theme = theme]

(***************************************************************************)
(* Storage key.                                                            *)
(***************************************************************************)
slugToDTag(s) == NOSTREE_PREFIX \o "/" \o s

\* the hook's computed d-tag
dTagOf(s) == IF s = DEFAULT_SLUG THEN LEGACY_DTAG ELSE slugToDTag(s)

(***************************************************************************)
(* publishEvent.  An outcome is what event.publish() does: it rejects      *)
(* (threw), or it resolves to the set of relays that accepted the event.   *)
(***************************************************************************)
PublishOutcomes == [threw : BOOLEAN, relays : SUBSET DEFAULT_RELAYS]

\* one outcome for each thing publishEvent reads of it: threw, relays.size
OutcomeKinds == {[threw |-> TRUE, relays |-> {}]} \cup {[threw |-> FALSE, relays |-> CHOOSE R \in SUBSET DEFAULT_RELAYS : Cardinality(R) = n] : n \in 0..Cardinality(DEFAULT_RELAYS)}

\* Math.ceil(total / 2)
quorum == (Cardinality(WRITE_RELAYS) + 1) \div 2

\* variant: success needs the write quorum
publishSuccessMajority(accepted) == accepted >= quorum

\* success: accepted >= quorum || accepted > 0
publishSuccess(accepted) == accepted >= quorum \/ accepted > 0

\* variant: the event is published whether or not a signer is set
publishEventUnchecked(hasSigner, outcome) ==
  IF outcome.threw THEN [threw |-> FALSE, success |-> FALSE, relaysAccepted |-> 0, relaysTotal |-> Cardinality(WRITE_RELAYS)]
  ELSE [threw |-> FALSE, success |-> publishSuccess(Cardinality(outcome.relays)), relaysAccepted |-> Cardinality(outcome.relays), relaysTotal |-> Cardinality(WRITE_RELAYS)]

\* threw: publishEvent itself throws (no signer); otherwise the PublishResult
publishEvent(hasSigner, outcome) ==
  IF ~hasSigner THEN [threw |-> TRUE, success |-> FALSE, relaysAccepted |-> 0, relaysTotal |-> 0]
  ELSE IF outcome.threw THEN [threw |-> FALSE, success |-> FALSE, relaysAccepted |-> 0, relaysTotal |-> Cardinality(WRITE_RELAYS)]
  ELSE [threw |-> FALSE, success |-> publishSuccess(Cardinality(outcome.relays)), relaysAccepted |-> Cardinality(outcome.relays), relaysTotal |-> Cardinality(WRITE_RELAYS)]

(***************************************************************************)
(* Events a query returns, and the newest-event selection of the loaders:  *)
(*   Array.from(events).sort((a, b) => (b.created_at || 0) -               *)
(*                                     (a.created_at || 0))[0]             *)
(***************************************************************************)
\* created_at of an event; UndefinedTs stands for a missing created_at
UndefinedTs == -1

Timestamps == {UndefinedTs} \cup (1..MaxTs)

createdAtOr0(e) == IF e.created_at = UndefinedTs THEN 0 ELSE e.created_at

\* Array.prototype.sort is stable: e goes after every element it does not precede
RECURSIVE InsertSorted(_, _)
InsertSorted(sorted, e) ==
  IF sorted = <<>> THEN <<e>>
  ELSE IF createdAtOr0(e) - createdAtOr0(Head(sorted)) > 0 THEN <<e>> \o sorted
  ELSE <<Head(sorted)>> \o InsertSorted(Tail(sorted), e)

RECURSIVE SortNewestFirst(_)
SortNewestFirst(events) == IF events = <<>> THEN <<>> ELSE InsertSorted(SortNewestFirst(SubSeq(events, 1, Len(events) - 1)), events[Len(events)])

\* variant: ascending sort, the oldest event first
RECURSIVE InsertOldestFirst(_, _)
InsertOldestFirst(sorted, e) ==
  IF sorted = <<>> THEN <<e>>
  ELSE IF createdAtOr0(Head(sorted)) - createdAtOr0(e) > 0 THEN <<e>> \o sorted
  ELSE <<Head(sorted)>> \o InsertOldestFirst(Tail(sorted), e)

RECURSIVE SortOldestFirst(_)
SortOldestFirst(events) == IF events = <<>> THEN <<>> ELSE InsertOldestFirst(SortOldestFirst(SubSeq(events, 1, Len(events) - 1)), events[Len(events)])

latestOldest(events) == SortOldestFirst(events)[1]

\* sorted[0]
latest(events) == SortNewestFirst(events)[1]

\* Contents of an event: JSON of a document that passes the schema, JSON
\* that fails the schema, text that is not JSON, or the empty string.
JsonOf(doc) == [kind |-> "json", valid |-> TRUE, doc |-> doc]

BadSchemaContent == [kind |-> "json", valid |-> FALSE, doc |-> NoData]

NotJsonContent == [kind |-> "garbage", valid |-> FALSE, doc |-> NoData]

EmptyContent == [kind |-> "empty", valid |-> FALSE, doc |-> NoData]

\* documents stored on the relays for a slug: two of the current version and
\* one of version 1.0 (NostreeDataSchema accepts both)
StoredDocs(s) == {MkData(s, <<MkLink("l1", TRUE), MkGroup("g1", <<MkLink("l2", TRUE)>>)>>, NewTreeTheme), MkData(s, <<MkGroup("g1", <<MkLink("l1", TRUE), MkLink("l2", TRUE)>>)>>, "dark"), MkLegacy(<<>>, <<MkLink("l1", TRUE)>>, <<>>, "dark")}

Contents(s) == {JsonOf(d) : d \in StoredDocs(s)} \cup {BadSchemaContent, NotJsonContent, EmptyContent}

Events(s) == [created_at : Timestamps, content : Contents(s)]

SeqsUpTo(S, n) == UNION {[1..k -> S] : k \in 0..n}

EventSeqs(s) == SeqsUpTo(Events(s), MaxEvents)

\* What the body of the hook's query does with the events (try / catch):
\* "data" is setData(validated.data), "error" is setError(...), "none" neither.
FETCH_ERROR == "Failed to fetch data from relays"

loadResult(events) ==
  IF Len(events) = 0 THEN [kind |-> "none", doc |-> NoData]
  ELSE LET c == latest(events).content
       IN IF c.kind = "empty" THEN [kind |-> "none", doc |-> NoData]
          ELSE IF c.kind = "garbage" THEN [kind |-> "error", doc |-> NoData]
          ELSE IF c.valid THEN [kind |-> "data", doc |-> c.doc]
          ELSE [kind |-> "none", doc |-> NoData]

(***************************************************************************)
(* State of one useLinkTree hook and of what it has in flight.             *)
(*   pubkey, slug        the hook's props (the session)                    *)
(*   data                the authoritative document (NoData is null)       *)
(*   isLoading, isSaving, error   the hook's flags                         *)
(*   pendingOptimistic   optimistic actions whose transition has not ended *)
(*   fetches             initial queries awaiting their events             *)
(*   publishes           publishData / updateTheme calls awaiting          *)
(*                       publishEvent; live is FALSE once the hook         *)
(*                       instance that issued them is unmounted            *)
(*   signer              ndk.signer is set (by the login that precedes the *)
(*                       editor)                                           *)
(*   toast               the last toast shown                              *)
(*   uuids               crypto.randomUUID() calls so far                  *)
(*   ops                 mutation calls and session changes so far         *)
(*   inOrder             the document obtained by applying, in call order, *)
(*                       the link mutations issued since no publish was in *)
(*                       flight; Broken once one of them has failed, the   *)
(*                       theme was updated or the session has changed      *)
(*   pf                  input and output of a function under test         *)
(* State of the slug viewer (SlugTreeViewer) and of the caches.            *)
(*   sv                  the viewer: its slug prop, status, error,         *)
(*                       treeData and the loadTree runs in flight          *)
(*   treeCache           the tree cache kept in localStorage, in key order *)
(*   profileCache        the profile cache (a Map), in insertion order     *)
(*   now                 Date.now(), in ms                                 *)
(***************************************************************************)
VARIABLES pubkey, slug, data, isLoading, isSaving, error, pendingOptimistic, fetches, publishes, signer, toast, uuids, ops, inOrder, pf, sv, treeCache, profileCache, now

hookVars == <<pubkey, slug, data, isLoading, isSaving, error, pendingOptimistic, fetches, publishes, signer, toast, uuids, ops, inOrder>>

viewerVars == <<sv, treeCache, profileCache, now>>

vars == <<pubkey, slug, data, isLoading, isSaving, error, pendingOptimistic, fetches, publishes, signer, toast, uuids, ops, inOrder, pf, sv, treeCache, profileCache, now>>

Pubkeys == {"pk1"}

Slugs == {DEFAULT_SLUG, "my-links"}

NoToast == "none"

Broken == [version |-> "broken"]

PfIdle == [op |-> "idle"]

\* no viewer is mounted, the caches are empty
SvUnmounted == [slug |-> NULL, status |-> "loading", error |-> NULL, profile |-> NULL, treeData |-> NoData, loads |-> <<>>]

ViewerIdle == sv = SvUnmounted /\ treeCache = <<>> /\ profileCache = <<>> /\ now = 0

\* the links the hook returns: optimisticLinks
links == ApplyAll(LinksOf(data), pendingOptimistic)

RemoveAt(s, i) == SubSeq(s, 1, i - 1) \o SubSeq(s, i + 1, Len(s))

Unmounted(s) == [i \in 1..Len(s) |-> [s[i] EXCEPT !.live = FALSE]]

\* mount of the hook for (pk, s): useState initial values, then the effect
Mounted(pk, s) ==
  /\ pubkey = pk
  /\ slug = s
  /\ data = NoData
  /\ isLoading = TRUE
  /\ isSaving = FALSE
  /\ error = NULL
  /\ pendingOptimistic = <<>>

Init ==
  /\ \E pk \in Pubkeys, s \in Slugs : Mounted(pk, s) /\ fetches = <<[pubkey |-> pk, slug |-> s, live |-> TRUE]>>
  /\ publishes = <<>>
  /\ signer \in BOOLEAN
  /\ toast = NoToast
  /\ uuids = 0
  /\ ops = 0
  /\ inOrder = Broken
  /\ pf = PfIdle
  /\ ViewerIdle

(***************************************************************************)
(* Session changes.                                                        *)
(***************************************************************************)
\* the props change in place: the effect runs again (deps [pubkey, dTag])
SwitchSession(pk, s) ==
  /\ <<pk, dTagOf(s)>> # <<pubkey, dTagOf(slug)>>
  /\ ops < MaxOps
  /\ ops' = ops + 1
  /\ pubkey' = pk
  /\ slug' = s
  /\ data' = NoData
  /\ isLoading' = TRUE
  /\ fetches' = Append(fetches, [pubkey |-> pk, slug |-> s, live |-> TRUE])
  /\ inOrder' = Broken
  /\ UNCHANGED <<isSaving, error, pendingOptimistic, publishes, signer, toast, uuids, pf, viewerVars>>

\* the editor remounts the hook (key={slug}): the old instance is torn down
Remount(pk, s) ==
  /\ ops < MaxOps
  /\ ops' = ops + 1
  /\ pubkey' = pk
  /\ slug' = s
  /\ data' = NoData
  /\ isLoading' = TRUE
  /\ isSaving' = FALSE
  /\ error' = NULL
  /\ pendingOptimistic' = <<>>
  /\ fetches' = Append(Unmounted(fetches), [pubkey |-> pk, slug |-> s, live |-> TRUE])
  /\ publishes' = Unmounted(publishes)
  /\ inOrder' = Broken
  /\ UNCHANGED <<signer, toast, uuids, pf, viewerVars>>

\* every value loadResult takes over the result sets of a query for slug s
LoadResults(s) == {[kind |-> "none", doc |-> NoData], [kind |-> "error", doc |-> NoData]} \cup {[kind |-> "data", doc |-> d] : d \in StoredDocs(s)}

\* the initial query of fetches[i] resolves; r is loadResult of its events
FetchResolve(i, r) ==
  /\ i \in 1..Len(fetches)
  /\ fetches' = RemoveAt(fetches, i)
  /\ IF fetches[i].live
     THEN /\ data' = IF r.kind = "data" THEN r.doc ELSE data
          /\ error' = IF r.kind = "error" THEN FETCH_ERROR ELSE error
          /\ isLoading' = FALSE
          /\ inOrder' = Broken
     ELSE UNCHANGED <<data, error, isLoading, inOrder>>
  /\ UNCHANGED <<pubkey, slug, isSaving, pendingOptimistic, publishes, signer, toast, uuids, ops, pf, viewerVars>>

\* logout(): ndk.signer = undefined.  The hook stays as it is until the
\* page re-renders, and what it has in flight stays in flight.
Logout ==
  /\ signer
  /\ ops < MaxOps
  /\ ops' = ops + 1
  /\ signer' = FALSE
  /\ UNCHANGED <<pubkey, slug, data, isLoading, isSaving, error, pendingOptimistic, fetches, publishes, toast, uuids, inOrder, pf, viewerVars>>

\* the transition of startTransition(() => applyOptimistic(...)) ends
TransitionEnd ==
  /\ pendingOptimistic # <<>>
  /\ pendingOptimistic' = <<>>
  /\ UNCHANGED <<pubkey, slug, data, isLoading, isSaving, error, fetches, publishes, signer, toast, uuids, ops, inOrder, pf, viewerVars>>

(***************************************************************************)
(* Mutations.  Each handler applies its optimistic action inside           *)
(* startTransition, then runs publishData (or its own copy of it) up to    *)
(* the await of publishEvent; PublishComplete is what follows the await.   *)
(***************************************************************************)
ChainLive == publishes # <<>>

ChainBase == IF ChainLive THEN inOrder ELSE data

ChainNext(doc) == IF ~signer \/ ChainBase = Broken THEN Broken ELSE doc

\* toast.error("Save failed" | "Theme update failed", ...)
SaveFailedToast(op) == "error"

\* toast.success("Saved!" | "Theme updated!", ...)
SavedToast(op) == "success"

\* setIsSaving(true); createNostreeEvent(updatedData, pubkey, dTag); publishEvent(event)
\* Without a signer publishEvent throws before anything is sent: catch, finally.
StartPublish(op, id, target, updatedData) ==
  /\ ops' = ops + 1
  /\ IF publishEvent(signer, [threw |-> FALSE, relays |-> {}]).threw
     THEN /\ isSaving' = FALSE
          /\ toast' = SaveFailedToast(op)
          /\ UNCHANGED publishes
     ELSE /\ isSaving' = TRUE
          /\ publishes' = Append(publishes, [op |-> op, id |-> id, target |-> target, doc |-> updatedData, pubkey |-> pubkey, dTag |-> dTagOf(slug), live |-> TRUE])
          /\ UNCHANGED toast
  /\ UNCHANGED <<pubkey, slug, data, isLoading, error, fetches, signer, pf, viewerVars>>

Ready == ~isLoading /\ ops < MaxOps /\ Len(pendingOptimistic) < MaxPending

NextUuid == "u" \o ToString(uuids + 1)

AddLink ==
  /\ Ready
  /\ LET newLink == MkLink(NextUuid, TRUE)
     IN /\ pendingOptimistic' = Append(pendingOptimistic, [type |-> "add", link |-> newLink])
        /\ StartPublish("addLink", newLink.id, NULL, updatedLinksData(data, slug, addLinkLinks(LinksOf(data), newLink)))
        /\ inOrder' = ChainNext(updatedLinksData(ChainBase, slug, addLinkLinks(LinksOf(ChainBase), newLink)))
  /\ uuids' = uuids + 1

AddGroup ==
  /\ Ready
  /\ LET newGroup == MkGroup(NextUuid, <<>>)
     IN /\ pendingOptimistic' = Append(pendingOptimistic, [type |-> "add_group", group |-> newGroup])
        /\ StartPublish("addGroup", newGroup.id, NULL, updatedLinksData(data, slug, addGroupLinks(LinksOf(data), newGroup)))
        /\ inOrder' = ChainNext(updatedLinksData(ChainBase, slug, addGroupLinks(LinksOf(ChainBase), newGroup)))
  /\ uuids' = uuids + 1

\* the editor passes a new order of the links it shows
ReorderLinks(newOrder) ==
  /\ Ready
  /\ pendingOptimistic' = Append(pendingOptimistic, [type |-> "reorder", links |-> newOrder])
  /\ StartPublish("reorderLinks", NULL, NULL, updatedLinksData(data, slug, newOrder))
  /\ inOrder' = ChainNext(updatedLinksData(ChainBase, slug, newOrder))
  /\ UNCHANGED uuids

DeleteGroup(id) ==
  /\ Ready
  /\ pendingOptimistic' = Append(pendingOptimistic, [type |-> "delete", id |-> id])
  /\ StartPublish("deleteGroup", id, NULL, updatedLinksData(data, slug, deleteGroupLinks(LinksOf(data), id)))
  /\ inOrder' = ChainNext(updatedLinksData(ChainBase, slug, deleteGroupLinks(LinksOf(ChainBase), id)))
  /\ UNCHANGED uuids

MoveToGroup(linkId, groupId) ==
  /\ Ready
  /\ IF moveToGroupFound(LinksOf(data), linkId)
     THEN /\ pendingOptimistic' = Append(pendingOptimistic, [type |-> "move_to_group", linkId |-> linkId, groupId |-> groupId])
          /\ StartPublish("moveToGroup", linkId, groupId, updatedLinksData(data, slug, moveToGroupLinks(LinksOf(data), linkId, groupId)))
     ELSE /\ ops' = ops + 1
          /\ UNCHANGED <<pubkey, slug, data, isLoading, isSaving, error, pendingOptimistic, fetches, publishes, signer, toast, pf, viewerVars>>
  /\ inOrder' = ChainNext(IF moveToGroupFound(LinksOf(ChainBase), linkId) THEN updatedLinksData(ChainBase, slug, moveToGroupLinks(LinksOf(ChainBase), linkId, groupId)) ELSE ChainBase)
  /\ UNCHANGED uuids

UpdateTheme(theme) ==
  /\ Ready
  /\ StartPublish("updateTheme", NULL, NULL, updatedThemeData(data, slug, theme))
  /\ inOrder' = Broken
  /\ UNCHANGED <<pendingOptimistic, uuids>>

\* setData(updatedData) whatever the result
promotedRegardless(d, updatedData, result) == updatedData

\* if (result.success) setData(updatedData); nothing otherwise
promoted(d, updatedData, result) == IF result.success THEN updatedData ELSE d

\* publishEvent of publishes[i] settles with outcome; then success / else / finally
PublishComplete(i, outcome) ==
  /\ i \in 1..Len(publishes)
  /\ LET p == publishes[i]
         result == publishEvent(TRUE, outcome)
     IN /\ publishes' = RemoveAt(publishes, i)
        /\ toast' = IF result.success THEN SavedToast(p.op) ELSE SaveFailedToast(p.op)
        /\ IF p.live
           THEN /\ data' = promoted(data, p.doc, result)
                /\ isSaving' = FALSE
                /\ inOrder' = IF result.success THEN inOrder ELSE Broken
           ELSE UNCHANGED <<data, isSaving, inOrder>>
  /\ UNCHANGED <<pubkey, slug, isLoading, error, pendingOptimistic, fetches, signer, uuids, ops, pf, viewerVars>>

Permutation(s, f) == [i \in 1..Len(s) |-> s[f[i]]]

Reorderings(s) == {Permutation(s, f) : f \in Permutations(1..Len(s))} \ {s}

Next ==
  \/ \E pk \in Pubkeys, s \in Slugs : SwitchSession(pk, s)
  \/ \E pk \in Pubkeys, s \in Slugs : Remount(pk, s)
  \/ \E i \in 1..Len(fetches) : \E r \in LoadResults(fetches[i].slug) : FetchResolve(i, r)
  \/ TransitionEnd
  \/ AddLink
  \/ AddGroup
  \/ \E newOrder \in Reorderings(links) : ReorderLinks(newOrder)
  \/ \E id \in GroupIds(links) : DeleteGroup(id)
  \/ \E linkId \in LinkIds(links), groupId \in GroupIds(links) \cup {NULL} : MoveToGroup(linkId, groupId)
  \/ \E theme \in Themes : UpdateTheme(theme)
  \/ \E i \in 1..Len(publishes) : \E outcome \in OutcomeKinds : PublishComplete(i, outcome)

Spec == Init /\ [][Next]_vars

\* one editor session in which the user may log out: the hook is mounted
\* once, and the mutations go on being callable after the logout
NextSigner ==
  \/ \E i \in 1..Len(fetches) : \E r \in LoadResults(fetches[i].slug) : FetchResolve(i, r)
  \/ Logout
  \/ TransitionEnd
  \/ AddLink
  \/ AddGroup
  \/ \E newOrder \in Reorderings(links) : ReorderLinks(newOrder)
  \/ \E id \in GroupIds(links) : DeleteGroup(id)
  \/ \E linkId \in LinkIds(links), groupId \in GroupIds(links) \cup {NULL} : MoveToGroup(linkId, groupId)
  \/ \E theme \in Themes : UpdateTheme(theme)
  \/ \E i \in 1..Len(publishes) : \E outcome \in OutcomeKinds : PublishComplete(i, outcome)

SpecSigner == Init /\ [][NextSigner]_vars

(***************************************************************************)
(* The functions on their own.  pf holds the input drawn by the initial    *)
(* state and the output once the function has been applied; the hook is    *)
(* mounted and idle throughout.                                            *)
(***************************************************************************)
HookIdle ==
  /\ Mounted("pk1", "my-links")
  /\ fetches = <<>>
  /\ publishes = <<>>
  /\ signer = FALSE
  /\ toast = NoToast
  /\ uuids = 0
  /\ ops = 0
  /\ inOrder = Broken

NoResult == [threw |-> FALSE, success |-> FALSE, relaysAccepted |-> -1, relaysTotal |-> -1]

\* publishEvent(event) with ndk.signer set or not
InitPublish ==
  /\ HookIdle
  /\ ViewerIdle
  /\ pf \in [op : {"publishEvent"}, hasSigner : BOOLEAN, outcome : PublishOutcomes, done : {FALSE}, result : {NoResult}]

PfPublishEvent ==
  /\ pf.op = "publishEvent"
  /\ ~pf.done
  /\ pf' = [pf EXCEPT !.done = TRUE, !.result = publishEvent(pf.hasSigner, pf.outcome)]
  /\ UNCHANGED <<hookVars, viewerVars>>

NextPublish == PfPublishEvent

SpecPublish == InitPublish /\ [][NextPublish]_vars

\* the effect's query returns events: sort, take the first, parse, validate
InitResolve ==
  /\ HookIdle
  /\ ViewerIdle
  /\ pf \in [op : {"load"}, events : EventSeqs(slug), done : {FALSE}, selected : {<<>>}, result : {[kind |-> "pending", doc |-> NoData]}]

PfLoad ==
  /\ pf.op = "load"
  /\ ~pf.done
  /\ pf' = [pf EXCEPT !.done = TRUE, !.selected = IF pf.events = <<>> THEN <<>> ELSE <<latest(pf.events)>>, !.result = loadResult(pf.events)]
  /\ UNCHANGED <<hookVars, viewerVars>>

NextResolve == PfLoad

SpecResolve == InitResolve /\ [][NextResolve]_vars

\* link arrays of documents: ids are unique across links and groups
LinkIdPool == {"a", "b", "c"}

GroupIdPool == {"g", "h"}

Distinct(s) == \A i, j \in 1..Len(s) : s[i].id = s[j].id => i = j

NestedSeqs == {ls \in SeqsUpTo({MkLink(id, TRUE) : id \in LinkIdPool}, MaxGroupLen) : Distinct(ls)}

Items == {MkLink(id, TRUE) : id \in LinkIdPool} \cup {MkGroup(g, ls) : g \in GroupIdPool, ls \in NestedSeqs}

LinkArrays == {s \in SeqsUpTo(Items, MaxRoot) : Distinct(s) /\ Distinct(AllLinks(s))}

\* the links of data after moveToGroup(linkId, groupId) and a successful
\* publish; published is FALSE on the early return
moveToGroupCall(currentLinks, linkId, groupId) ==
  IF moveToGroupFound(currentLinks, linkId)
  THEN [published |-> TRUE, links |-> updatedLinksData(MkData(slug, currentLinks, NewTreeTheme), slug, moveToGroupLinks(currentLinks, linkId, groupId)).links]
  ELSE [published |-> FALSE, links |-> currentLinks]

\* the optimistic links after the reducer's move_to_group
moveToGroupReduce(currentLinks, linkId, groupId) == [published |-> FALSE, links |-> linkReducer(currentLinks, [type |-> "move_to_group", linkId |-> linkId, groupId |-> groupId])]

\* the document deleteGroup(id) submits
deleteGroupCall(currentLinks, id) == updatedLinksData(MkData(slug, currentLinks, NewTreeTheme), slug, deleteGroupLinks(currentLinks, id))

NoOut == [published |-> FALSE, links |-> <<>>]

\* linkId "a" and groupId "g", "h" may or may not occur in the array;
\* linkId "g" is the id of a group passed where a link id is expected
InitLinks ==
  /\ HookIdle
  /\ ViewerIdle
  /\ \/ pf \in [op : {"moveToGroup", "move_to_group"}, links : LinkArrays, linkId : {"a", "g"}, groupId : {NULL, "g", "h"}, step : {0}, out1 : {NoOut}, out2 : {NoOut}]
     \/ pf \in [op : {"deleteGroup"}, links : LinkArrays, id : {"g", "a"}, step : {0}, out : {NoData}]

PfMoveToGroup ==
  /\ pf.op = "moveToGroup"
  /\ pf.step < 2
  /\ pf' = IF pf.step = 0
           THEN [pf EXCEPT !.step = 1, !.out1 = moveToGroupCall(pf.links, pf.linkId, pf.groupId)]
           ELSE [pf EXCEPT !.step = 2, !.out2 = moveToGroupCall(pf.out1.links, pf.linkId, pf.groupId)]
  /\ UNCHANGED <<hookVars, viewerVars>>

PfReduceMove ==
  /\ pf.op = "move_to_group"
  /\ pf.step < 2
  /\ pf' = IF pf.step = 0
           THEN [pf EXCEPT !.step = 1, !.out1 = moveToGroupReduce(pf.links, pf.linkId, pf.groupId)]
           ELSE [pf EXCEPT !.step = 2, !.out2 = moveToGroupReduce(pf.out1.links, pf.linkId, pf.groupId)]
  /\ UNCHANGED <<hookVars, viewerVars>>

PfDeleteGroup ==
  /\ pf.op = "deleteGroup"
  /\ pf.step = 0
  /\ pf' = [pf EXCEPT !.step = 1, !.out = deleteGroupCall(pf.links, pf.id)]
  /\ UNCHANGED <<hookVars, viewerVars>>

NextLinks == PfMoveToGroup \/ PfReduceMove \/ PfDeleteGroup

SpecLinks == InitLinks /\ [][NextLinks]_vars

(***************************************************************************)
(* Properties of the hook, checked under Spec.                             *)
(***************************************************************************)
\* the step is the completion of publishes[i]
Completes(i) == i \in 1..Len(publishes) /\ publishes' = RemoveAt(publishes, i)

\* the step is the resolution of fetches[i]
Resolves(i) == i \in 1..Len(fetches) /\ fetches' = RemoveAt(fetches, i)

\* the step is a mutation call (not a session change, not a logout)
MutationCall == ops' = ops + 1 /\ fetches' = fetches /\ signer' = signer

\* publishes[i] was issued for another session, or by a torn-down instance
StalePublish(i) == ~publishes[i].live \/ <<publishes[i].pubkey, publishes[i].dTag>> # <<pubkey, dTagOf(slug)>>

\* fetches[i] was issued for another session, or by a torn-down instance
StaleFetch(i) == ~fetches[i].live \/ <<fetches[i].pubkey, dTagOf(fetches[i].slug)>> # <<pubkey, dTagOf(slug)>>

\* C1: mutations take effect in call order with no lost update: once every
\* publish of a run of mutations issued on a ready session has succeeded,
\* the authoritative document is the result of applying them in call order
\* to the document that was authoritative before the first of them.
C1_CallOrderNoLostUpdate == (inOrder # Broken /\ publishes = <<>>) => data = inOrder

\* C2: when the publish of a mutation succeeds, data becomes exactly the
\* document submitted for that publish; when it does not succeed (the result
\* is unsuccessful, or publishEvent throws during the mutation call), data is
\* left unchanged.
C2_PublishPromotesSubmitted ==
  [][/\ \A i \in 1..Len(publishes) : (Completes(i) /\ publishes[i].live) => (IF toast' = SavedToast(publishes[i].op) THEN data' = publishes[i].doc ELSE data' = data)
     /\ MutationCall => data' = data]_vars

\* C2 witness: the document submitted by addLink has been promoted.
C2_Witness == toast = SavedToast("addLink") /\ publishes = <<>> /\ data # NoData /\ HasId(LinksOf(data), "u1") /\ ~HasId(LinksOf(data), "u2")

\* C3: a publish of a link mutation that no relay accepts leaves the links
\* exposed to the UI showing the attempted mutation, and raises a save
\* failure: the error state (validation / fetch error) is untouched.
C3_FailureKeepsProjection ==
  [][\A i \in 1..Len(publishes) : (Completes(i) /\ ~StalePublish(i) /\ publishes[i].op # "updateTheme" /\ toast' = SaveFailedToast(publishes[i].op) /\ Len(publishes) = 1 /\ pendingOptimistic = <<>>) => (links' = publishes[i].doc.links /\ error' = error)]_vars

\* C5: the result of an initial query that arrives after its session was
\* torn down or switched changes neither data, nor isLoading, nor error.
C5_LateQueryDiscarded ==
  [][\A i \in 1..Len(fetches) : (Resolves(i) /\ StaleFetch(i)) => (data' = data /\ isLoading' = isLoading /\ error' = error)]_vars

\* C6: the result of a publish that completes after the session's
\* (owner, slug) has changed is discarded: data is not set by it.
C6_StalePublishDiscarded ==
  [][\A i \in 1..Len(publishes) : (Completes(i) /\ StalePublish(i)) => data' = data]_vars

(***************************************************************************)
(* Properties of publishEvent, checked under SpecPublish.                  *)
(***************************************************************************)
\* C4: publishEvent reports success iff at least one relay acknowledged the
\* event: true for every accepted count >= 1, false for 0, and false with
\* relaysAccepted 0 when the underlying publish raises.
C4_SuccessIffAcknowledged ==
  (pf.op = "publishEvent" /\ pf.done /\ pf.hasSigner) =>
    LET acceptedCount == Cardinality(pf.outcome.relays)
        r == pf.result
    IN /\ ~r.threw
       /\ IF pf.outcome.threw
          THEN ~r.success /\ r.relaysAccepted = 0
          ELSE (r.success <=> acceptedCount >= 1) /\ r.relaysAccepted = acceptedCount

\* C4 witness: one relay of several acknowledged, and success is reported.
C4_Witness == pf.op = "publishEvent" /\ pf.done /\ pf.hasSigner /\ ~pf.outcome.threw /\ Cardinality(pf.outcome.relays) = 1 /\ pf.result.success

(***************************************************************************)
(* Properties of resolution, checked under SpecResolve.                    *)
(***************************************************************************)
IsNewest(events, i) == \A j \in 1..Len(events) : createdAtOr0(events[i]) >= createdAtOr0(events[j])

IsOnlyNewest(events, i) == \A j \in 1..Len(events) : j # i => (createdAtOr0(events[i]) > createdAtOr0(events[j]) \/ events[j] = events[i])

\* C7: of a non-empty result set, in any order and with duplicates, the
\* event selected has the greatest timestamp; a document is loaded only
\* from an event with the greatest timestamp, and the valid document of the
\* one newest event is the document loaded.
C7_NewestSelected ==
  (pf.op = "load" /\ pf.done /\ pf.events # <<>>) =>
    /\ \E i \in 1..Len(pf.events) : pf.selected[1] = pf.events[i] /\ IsNewest(pf.events, i)
    /\ pf.result.kind = "data" => \E i \in 1..Len(pf.events) : IsNewest(pf.events, i) /\ pf.events[i].content.valid /\ pf.events[i].content.doc = pf.result.doc
    /\ \A i \in 1..Len(pf.events) : (IsOnlyNewest(pf.events, i) /\ pf.events[i].content.valid) => pf.result = [kind |-> "data", doc |-> pf.events[i].content.doc]

\* C7 witness: the older of two valid documents arrived first, and the
\* newer one is loaded.
C7_Witness ==
  /\ pf.op = "load" /\ pf.done /\ Len(pf.events) = 2
  /\ pf.events[1].content.valid /\ pf.events[2].content.valid
  /\ pf.events[1].content.doc # pf.events[2].content.doc
  /\ createdAtOr0(pf.events[1]) > 0 /\ createdAtOr0(pf.events[1]) < createdAtOr0(pf.events[2])
  /\ pf.result = [kind |-> "data", doc |-> pf.events[2].content.doc]

\* every value loadResult takes is one the hook's FetchResolve draws
LoadResultsCover == (pf.op = "load" /\ pf.done) => pf.result \in LoadResults(slug)

(***************************************************************************)
(* Properties of the link computations, checked under SpecLinks.           *)
(***************************************************************************)
\* items with every link of the given id taken out, at the root and in groups
Erase(items, id) ==
  LET root == SelectSeq(items, LAMBDA it : IsGroup(it) \/ it.id # id)
  IN [i \in 1..Len(root) |-> IF IsGroup(root[i]) THEN [root[i] EXCEPT !.links = SelectSeq(@, LAMBDA l : l.id # id)] ELSE root[i]]

Occurrences(items, id) == Len(SelectSeq(AllLinks(items), LAMBDA l : l.id = id))

\* C8: the document deleteGroup(g) submits holds the same multiset of links
\* as the document it was computed from; group g is gone from it and the
\* links of g stand at the end of the root in their relative order.
C8_DeleteGroupPreservesLinks ==
  (pf.op = "deleteGroup" /\ pf.step = 1) =>
    /\ LinkBag(pf.out.links) = LinkBag(pf.links)
    /\ pf.id \in GroupIds(pf.links) =>
         /\ pf.id \notin GroupIds(pf.out.links)
         /\ pf.out.links = SelectSeq(pf.links, LAMBDA it : it.id # pf.id) \o FindById(pf.links, pf.id).links

\* C8 witness: a group of two links, followed by a root link, was deleted.
C8_Witness ==
  /\ pf.op = "deleteGroup" /\ pf.step = 1 /\ pf.id = "g"
  /\ Len(pf.links) = 2 /\ pf.links[1].id = "g" /\ Len(pf.links[1].links) = 2 /\ ~IsGroup(pf.links[2])
  /\ Len(pf.out.links) = 3

\* C9: the move is idempotent, in the hook and in the reducer: for every
\* links array, link id and target (a group id or null), moving twice with
\* the same arguments gives the links that moving once gives.
C9_MoveIdempotent == (pf.op \in {"moveToGroup", "move_to_group"} /\ pf.step = 2) => pf.out2.links = pf.out1.links

\* C9 witness: a move that changed the links has been applied twice.
C9_Witness == pf.op \in {"moveToGroup", "move_to_group"} /\ pf.step = 2 /\ pf.out1.links # pf.links /\ pf.groupId = NULL /\ pf.linkId \in LinkIds(pf.links)

\* C10: for a target that is null or the id of a group of the document,
\* the move takes the link out of where it is and makes it the last
\* element of the target, leaving everything else as it was; when no link
\* has the id, the links are unchanged and nothing is published.
C10_MoveAppendsToTarget ==
  (pf.op \in {"moveToGroup", "move_to_group"} /\ pf.step >= 1) =>
    IF pf.linkId \notin LinkIds(pf.links)
    THEN pf.out1.links = pf.links /\ ~pf.out1.published
    ELSE (pf.groupId = NULL \/ pf.groupId \in GroupIds(pf.links)) =>
           /\ pf.op = "moveToGroup" => pf.out1.published
           /\ Erase(pf.out1.links, pf.linkId) = Erase(pf.links, pf.linkId)
           /\ Occurrences(pf.out1.links, pf.linkId) = 1
           /\ LET link == FindById(AllLinks(pf.links), pf.linkId)
                  target == IF pf.groupId = NULL THEN pf.out1.links ELSE FindById(pf.out1.links, pf.groupId).links
              IN target[Len(target)] = link

\* C10 witness: a link was moved out of one group to the end of another
\* group that already held a link.
C10_Witness ==
  /\ pf.op = "moveToGroup" /\ pf.step = 1 /\ pf.linkId = "a" /\ pf.groupId = "g" /\ pf.out1.published
  /\ Len(pf.links) = 2 /\ pf.links[1].id = "h" /\ HasId(pf.links[1].links, "a")
  /\ pf.links[2].id = "g" /\ Len(pf.links[2].links) = 1
  /\ Len(pf.out1.links[2].links) = 2

(***************************************************************************)
(* Loading.  fetchEventsWithTimeout resolves at end of stored events or at *)
(* its deadline, so every query in flight is eventually resolved.          *)
(***************************************************************************)
SomeFetchResolves == \E i \in 1..Len(fetches) : \E r \in LoadResults(fetches[i].slug) : FetchResolve(i, r)

SpecLive == Spec /\ WF_vars(SomeFetchResolves)

\* a session that is loading eventually is not
LoadingEnds == isLoading ~> ~isLoading

\* no mutation has been issued and nothing is in flight: data is what the
\* loads have left
OnlyLoaded == toast = NoToast /\ publishes = <<>> /\ fetches = <<>> /\ uuids = 0

\* C11: a session that entered loading leaves it with isLoading false and,
\* as its document, the newest valid document stored for its (owner, slug),
\* or null when nothing matched.
C11_ReadyWithSessionDocument == (OnlyLoaded /\ ~isLoading) => (data = NoData \/ data \in StoredDocs(slug))

(***************************************************************************)
(* The limit of the schema on the links array, and the additions.          *)
(***************************************************************************)
\* links: z.array(...).max(50, "Maximum 50 links allowed")
MAX_LINKS == 50

\* a links array of n links, as a load validates it (n <= MAX_LINKS)
LinksOfLength(n) == [i \in 1..n |-> MkLink("l" \o ToString(i), TRUE)]

\* the document addLink submits
addLinkCall(currentLinks, newLink) == updatedLinksData(MkData(slug, currentLinks, NewTreeTheme), slug, addLinkLinks(currentLinks, newLink))

\* the document addGroup submits
addGroupCall(currentLinks, newGroup) == updatedLinksData(MkData(slug, currentLinks, NewTreeTheme), slug, addGroupLinks(currentLinks, newGroup))

InitLimits ==
  /\ HookIdle
  /\ ViewerIdle
  /\ pf \in [op : {"addLink", "addGroup"}, links : {LinksOfLength(n) : n \in 0..MAX_LINKS}, step : {0}, out : {NoData}]

PfAddLink ==
  /\ pf.op = "addLink"
  /\ pf.step = 0
  /\ pf' = [pf EXCEPT !.step = 1, !.out = addLinkCall(pf.links, MkLink(NextUuid, TRUE))]
  /\ UNCHANGED <<hookVars, viewerVars>>

PfAddGroup ==
  /\ pf.op = "addGroup"
  /\ pf.step = 0
  /\ pf' = [pf EXCEPT !.step = 1, !.out = addGroupCall(pf.links, MkGroup(NextUuid, <<>>))]
  /\ UNCHANGED <<hookVars, viewerVars>>

NextLimits == PfAddLink \/ PfAddGroup

SpecLimits == InitLimits /\ [][NextLimits]_vars

\* C12: every document submitted for publication holds at most MAX_LINKS
\* items in its links array, and no id twice.
C12_SubmittedWithinLimits ==
  (pf.op \in {"addLink", "addGroup"} /\ pf.step = 1) => (Len(pf.out.links) <= MAX_LINKS /\ Distinct(pf.out.links) /\ Distinct(AllLinks(pf.out.links)))

\* the part of C12 on ids alone
SubmittedIdsUnique == (pf.op \in {"addLink", "addGroup"} /\ pf.step = 1) => (Distinct(pf.out.links) /\ Distinct(AllLinks(pf.out.links)))

(***************************************************************************)
(* The document each mutation serializes, as a function of data.           *)
(* updates objects (Partial<TreeMeta>, Partial<ProfileOverride>) are       *)
(* records holding a subset of the fields.                                 *)
(***************************************************************************)
Restrict(f, D) == [k \in D |-> f[k]]

NoFields == Restrict([x |-> TRUE], {})

MetaUpdates == {Restrict(full, D) : full \in [slug : {"my-links", "other"}, title : {"New title"}, isDefault : BOOLEAN], D \in SUBSET {"slug", "title", "isDefault"}}

ProfileUpdates == {Restrict(full, D) : full \in [name : {"Alice"}, headerImage : {"data:image"}, show_verification : {FALSE}], D \in SUBSET {"name", "headerImage", "show_verification"}}

\* variant: the updates are spread last, over the slug
updatedTreeMetaDataUpdatesLast(d, s, updates) == [currentData(d, s) EXCEPT !.treeMeta = updates @@ currentData(d, s).treeMeta]

\* treeMeta: {...currentData.treeMeta, ...updates, slug: currentData.treeMeta.slug}
updatedTreeMetaData(d, s, updates) == [currentData(d, s) EXCEPT !.treeMeta = [slug |-> currentData(d, s).treeMeta.slug] @@ updates @@ currentData(d, s).treeMeta]

\* profile: {show_verification: true, ...currentData.profile, ...updates}
updatedProfileData(d, s, updates) ==
  LET cur == currentData(d, s)
      old == IF cur.profile = <<>> THEN NoFields ELSE cur.profile[1]
  IN [cur EXCEPT !.profile = <<updates @@ old @@ [show_verification |-> TRUE]>>]

Threw == [threw |-> TRUE, doc |-> NoData]

Submitted(doc) == [threw |-> FALSE, doc |-> doc]

\* publishData(newLinks), up to createNostreeEvent
publishDataCall(d, s, newLinks) == Submitted(updatedLinksData(d, s, newLinks))

updateThemeCall(d, s, theme) == Submitted(updatedThemeData(d, s, theme))

\* on a legacy document currentData.treeMeta is undefined: reading its slug
\* throws inside the try, and nothing is submitted
updateTreeMetaCall(d, s, updates) == IF d.version = "1.0" THEN Threw ELSE Submitted(updatedTreeMetaData(d, s, updates))

updateProfileCall(d, s, updates) == Submitted(updatedProfileData(d, s, updates))

\* the documents data can hold for the session's slug
CurrentDocs(s) == {[MkData(s, ls, th) EXCEPT !.profile = pr, !.socials = so, !.treeMeta = tm @@ @] : ls \in {<<>>, <<MkLink("l1", TRUE)>>}, th \in Themes, pr \in {<<>>, <<[name |-> "Bob", show_verification |-> FALSE]>>}, so \in {<<>>, <<"github">>}, tm \in {NoFields, [title |-> "Old title"]}}

LegacyDocs == {MkLegacy(pr, <<MkLink("l1", TRUE)>>, <<"github">>, th) : pr \in {<<>>, <<[name |-> "Bob", show_verification |-> FALSE]>>}, th \in Themes}

FrameData == {NoData} \cup CurrentDocs(slug) \cup LegacyDocs

InitFrame ==
  /\ HookIdle
  /\ ViewerIdle
  /\ \/ pf \in [op : {"publishData"}, data : FrameData, arg : {<<>>, <<MkLink("l2", TRUE)>>}, step : {0}, out : {Threw}]
     \/ pf \in [op : {"updateTheme"}, data : FrameData, arg : Themes, step : {0}, out : {Threw}]
     \/ pf \in [op : {"updateTreeMeta"}, data : FrameData, arg : MetaUpdates, step : {0}, out : {Threw}]
     \/ pf \in [op : {"updateProfile"}, data : FrameData, arg : ProfileUpdates, step : {0}, out : {Threw}]

PfPublishData ==
  /\ pf.op = "publishData" /\ pf.step = 0
  /\ pf' = [pf EXCEPT !.step = 1, !.out = publishDataCall(pf.data, slug, pf.arg)]
  /\ UNCHANGED <<hookVars, viewerVars>>

PfUpdateTheme ==
  /\ pf.op = "updateTheme" /\ pf.step = 0
  /\ pf' = [pf EXCEPT !.step = 1, !.out = updateThemeCall(pf.data, slug, pf.arg)]
  /\ UNCHANGED <<hookVars, viewerVars>>

PfUpdateTreeMeta ==
  /\ pf.op = "updateTreeMeta" /\ pf.step = 0
  /\ pf' = [pf EXCEPT !.step = 1, !.out = updateTreeMetaCall(pf.data, slug, pf.arg)]
  /\ UNCHANGED <<hookVars, viewerVars>>

PfUpdateProfile ==
  /\ pf.op = "updateProfile" /\ pf.step = 0
  /\ pf' = [pf EXCEPT !.step = 1, !.out = updateProfileCall(pf.data, slug, pf.arg)]
  /\ UNCHANGED <<hookVars, viewerVars>>

NextFrame == PfPublishData \/ PfUpdateTheme \/ PfUpdateTreeMeta \/ PfUpdateProfile

SpecFrame == InitFrame /\ [][NextFrame]_vars

FrameOps == {"publishData", "updateTheme", "updateTreeMeta", "updateProfile"}

\* C13: no mutation changes treeMeta.slug: the document submitted (and
\* promoted on success) has the slug of the document it was computed from,
\* the session's slug when there was none, also when updateTreeMeta is
\* given updates that hold another slug.
C13_SlugImmutable ==
  (pf.op \in FrameOps /\ pf.step = 1 /\ ~pf.out.threw) =>
    IF pf.data = NoData THEN pf.out.doc.treeMeta.slug = slug
    ELSE IF pf.data.version = "1.0" THEN "treeMeta" \notin DOMAIN pf.out.doc
    ELSE pf.out.doc.treeMeta.slug = pf.data.treeMeta.slug

\* C13 witness: updateTreeMeta was given another slug and a title; the
\* title is in the submitted document, the slug is the old one.
C13_Witness ==
  /\ pf.op = "updateTreeMeta" /\ pf.step = 1 /\ ~pf.out.threw /\ pf.data # NoData
  /\ "slug" \in DOMAIN pf.arg /\ "title" \in DOMAIN pf.arg /\ pf.arg.slug # pf.data.treeMeta.slug
  /\ pf.out.doc.treeMeta.title = pf.arg.title /\ pf.out.doc.treeMeta.slug = pf.data.treeMeta.slug

OwnPart(op) == CASE op = "publishData" -> "links" [] op = "updateTheme" -> "theme" [] op = "updateTreeMeta" -> "treeMeta" [] op = "updateProfile" -> "profile"

\* C14: every mutation submits the entire document and changes only its
\* own part: the submitted document has every field of the document it was
\* computed from (the empty document of the session when data is null),
\* each with the same value except links for a link / group mutation, theme
\* for updateTheme, treeMeta for updateTreeMeta, profile for updateProfile.
C14_OnlyOwnPartChanges ==
  (pf.op \in FrameOps /\ pf.step = 1 /\ ~pf.out.threw) =>
    LET base == IF pf.data = NoData THEN EmptyData(slug) ELSE pf.data
        own == OwnPart(pf.op)
        out == pf.out.doc
    IN /\ DOMAIN out \ {own} = DOMAIN base \ {own}
       /\ \A k \in DOMAIN base \ {own} : out[k] = base[k]
       /\ own \in DOMAIN out
       /\ pf.op = "publishData" => out.links = pf.arg
       /\ pf.op = "updateTheme" => out.theme = pf.arg

\* C14 witness: new links were submitted for a document that has a profile
\* override, socials, a title and the dark theme.
C14_Witness ==
  /\ pf.op = "publishData" /\ pf.step = 1 /\ ~pf.out.threw /\ pf.data # NoData /\ pf.data.version = "2.0"
  /\ pf.data.profile # <<>> /\ pf.data.socials # <<>> /\ pf.data.theme = "dark" /\ "title" \in DOMAIN pf.data.treeMeta
  /\ pf.arg # pf.data.links /\ pf.out.doc.links = pf.arg /\ pf.out.doc.profile = pf.data.profile

(***************************************************************************)
(* The caches of the viewers.  A cache is the sequence of its entries in   *)
(* key order (Object.keys / Map order); an entry is [key, data, ts,        *)
(* eventTs].  eventTs is not stored by the program: it is the created_at   *)
(* of the event the data came from, kept to state properties.              *)
(***************************************************************************)
TREE_CACHE_TTL == 30000

CACHE_TTL == 60000

\* if (keys.length >= 10)
TREE_CACHE_LIMIT == 10

CacheKeys(cache) == {cache[i].key : i \in 1..Len(cache)}

CacheEntry(cache, key) == cache[CHOOSE i \in 1..Len(cache) : cache[i].key = key]

\* variant: an entry is returned whatever its age
getCachedTreeAnyAge(cache, key, nowMs) == IF key \in CacheKeys(cache) THEN CacheEntry(cache, key).data ELSE NoData

\* getCachedTree(slug): NoData is null
getCachedTree(cache, key, nowMs) == IF key \in CacheKeys(cache) /\ nowMs - CacheEntry(cache, key).ts < TREE_CACHE_TTL THEN CacheEntry(cache, key).data ELSE NoData

\* keys.sort((a, b) => cache[a].ts - cache[b].ts)[0]: the sort is stable
oldest(cache) == cache[CHOOSE i \in 1..Len(cache) : \A j \in 1..Len(cache) : cache[i].ts < cache[j].ts \/ (cache[i].ts = cache[j].ts /\ i <= j)].key

\* cache[key] = entry: an existing key keeps its place, a new one goes last
WithEntry(cache, entry) == IF entry.key \in CacheKeys(cache) THEN [i \in 1..Len(cache) |-> IF cache[i].key = entry.key THEN entry ELSE cache[i]] ELSE Append(cache, entry)

\* setCachedTree(slug, data); localStorage is taken to work (a read or write
\* that throws is caught and leaves the cache as it was)
setCachedTree(cache, key, d, nowMs, eventTs) ==
  LET kept == IF Len(cache) >= TREE_CACHE_LIMIT THEN SelectSeq(cache, LAMBDA e : e.key # oldest(cache)) ELSE cache
  IN WithEntry(kept, [key |-> key, data |-> d, ts |-> nowMs, eventTs |-> eventTs])

\* variant: the profile is returned whatever its age
profileCacheReadAnyAge(cache, key, nowMs) == IF key \in CacheKeys(cache) THEN CacheEntry(cache, key).data ELSE NULL

\* cached && Date.now() - cached.ts < CACHE_TTL ? cached.data : (miss)
profileCacheRead(cache, key, nowMs) == IF key \in CacheKeys(cache) /\ nowMs - CacheEntry(cache, key).ts < CACHE_TTL THEN CacheEntry(cache, key).data ELSE NULL

\* profileCache.set(ownerPubkey, {data: profileData, ts: Date.now()})
profileCacheSet(cache, key, profileData, nowMs) == WithEntry(cache, [key |-> key, data |-> profileData, ts |-> nowMs, eventTs |-> 0])

\* a tree cache as n puts of new keys at times 1..n leave it, the r-th key
\* put once more at time n + 1 when r > 0
FilledCache(n, r) == [i \in 1..n |-> [key |-> "k" \o ToString(i), data |-> EmptyData("k" \o ToString(i)), ts |-> IF i = r THEN n + 1 ELSE i, eventTs |-> 1]]

TestKeys == {"k1", "k" \o ToString(TREE_CACHE_LIMIT + 1)}

Delays == {1, TREE_CACHE_TTL - 1, TREE_CACHE_TTL, CACHE_TTL - 1}

InitCache ==
  /\ HookIdle
  /\ sv = SvUnmounted
  /\ profileCache = <<>>
  /\ \E n \in 0..TREE_CACHE_LIMIT, r \in 0..TREE_CACHE_LIMIT : r <= n /\ treeCache = FilledCache(n, r) /\ now = n + 1
  /\ pf = [op |-> "cache", calls |-> 0, last |-> [call |-> "none"]]

CacheCall(last) == pf.op = "cache" /\ pf.calls < MaxCacheCalls /\ pf' = [pf EXCEPT !.calls = @ + 1, !.last = last]

SetCachedTree(key) ==
  /\ CacheCall([call |-> "setCachedTree", key |-> key, data |-> MkData(key, <<>>, "dark"), before |-> treeCache, at |-> now])
  /\ treeCache' = setCachedTree(treeCache, key, MkData(key, <<>>, "dark"), now, 1)
  /\ UNCHANGED <<hookVars, sv, profileCache, now>>

GetCachedTree(key) ==
  /\ CacheCall([call |-> "getCachedTree", key |-> key, result |-> getCachedTree(treeCache, key, now), at |-> now])
  /\ UNCHANGED <<hookVars, sv, treeCache, profileCache, now>>

ProfileCacheSet(key) ==
  /\ CacheCall([call |-> "profileCache.set", key |-> key, data |-> "profile of " \o key, at |-> now])
  /\ profileCache' = profileCacheSet(profileCache, key, "profile of " \o key, now)
  /\ UNCHANGED <<hookVars, sv, treeCache, now>>

ProfileCacheRead(key) ==
  /\ CacheCall([call |-> "profileCache.get", key |-> key, result |-> profileCacheRead(profileCache, key, now), at |-> now])
  /\ UNCHANGED <<hookVars, sv, treeCache, profileCache>>
  /\ UNCHANGED now

\* time passes
Advance(ms) ==
  /\ CacheCall([call |-> "advance"])
  /\ now' = now + ms
  /\ UNCHANGED <<hookVars, sv, treeCache, profileCache>>

NextCache ==
  \/ \E key \in TestKeys : SetCachedTree(key)
  \/ \E key \in TestKeys : GetCachedTree(key)
  \/ \E key \in Pubkeys : ProfileCacheSet(key)
  \/ \E key \in Pubkeys : ProfileCacheRead(key)
  \/ \E ms \in Delays : Advance(ms)

SpecCache == InitCache /\ [][NextCache]_vars

\* the entries of before whose key is not in after
Evicted(before, after) == {before[i] : i \in {j \in 1..Len(before) : before[j].key \notin CacheKeys(after)}}

\* C15: a put of a new key into a cache of TREE_CACHE_LIMIT entries evicts
\* exactly one entry, one with the smallest insertion timestamp; every
\* other put evicts nothing.
C15_EvictsOnlyOnNewKeyAtLimit ==
  (pf.op = "cache" /\ pf.last.call = "setCachedTree") =>
    LET before == pf.last.before
        gone == Evicted(before, treeCache)
    IN IF pf.last.key \notin CacheKeys(before) /\ Len(before) = TREE_CACHE_LIMIT
       THEN Cardinality(gone) = 1 /\ \A e \in gone : \A i \in 1..Len(before) : e.ts <= before[i].ts
       ELSE gone = {}

\* the call made by the step
Called(call) == pf.op = "cache" /\ pf'.calls = pf.calls + 1 /\ pf'.last.call = call

\* cache holds an entry for key that is younger than ttl
Fresh(cache, key, ttl) == \E i \in 1..Len(cache) : cache[i].key = key /\ now - cache[i].ts < ttl

isV1Data(d) == d.version = "1.0"

\* title: data.profile?.name || undefined
TitleOf(profile) == IF profile # <<>> /\ "name" \in DOMAIN profile[1] /\ profile[1].name # "" THEN [title |-> profile[1].name] ELSE NoFields

\* variant: the links are not carried over
migrateV1toV2WithoutLinks(d, s) == [version |-> "2.0", treeMeta |-> TitleOf(d.profile) @@ [slug |-> IF s = NULL THEN DEFAULT_SLUG ELSE s, isDefault |-> (IF s = NULL THEN DEFAULT_SLUG ELSE s) = DEFAULT_SLUG], profile |-> d.profile, links |-> <<>>, socials |-> d.socials, theme |-> d.theme]

\* migrateV1toV2(data, slug = DEFAULT_SLUG)
migrateV1toV2(d, s) == [version |-> "2.0", treeMeta |-> TitleOf(d.profile) @@ [slug |-> IF s = NULL THEN DEFAULT_SLUG ELSE s, isDefault |-> (IF s = NULL THEN DEFAULT_SLUG ELSE s) = DEFAULT_SLUG], profile |-> d.profile, links |-> d.links, socials |-> d.socials, theme |-> d.theme]

\* parseNostreeData(raw, slug?): raw is the parsed JSON, valid when it
\* matches NostreeDataSchema (the union of the two versions)
parseNostreeData(raw, s) ==
  IF ~raw.valid THEN [success |-> FALSE, data |-> NoData]
  ELSE IF isV1Data(raw.doc) THEN [success |-> TRUE, data |-> migrateV1toV2(raw.doc, IF s = NULL \/ s = "" THEN DEFAULT_SLUG ELSE s)]
  ELSE [success |-> TRUE, data |-> raw.doc]

LegacyInputs == {MkLegacy(pr, ls, so, th) : pr \in {<<>>, <<[name |-> "Bob", show_verification |-> FALSE]>>, <<[name |-> "", show_verification |-> TRUE]>>, <<[show_verification |-> TRUE]>>}, ls \in {<<>>, <<MkLink("l1", TRUE)>>, <<MkLink("l1", TRUE), MkLink("l2", FALSE)>>, <<MkLink("l2", FALSE), MkLink("l1", TRUE)>>}, so \in {<<>>, <<"github">>, <<"github", "x">>}, th \in Themes}

SlugArgs == Slugs \cup {NULL}

RawInputs == {JsonOf(d) : d \in LegacyInputs \cup CurrentDocs("my-links")} \cup {BadSchemaContent}

InitParse ==
  /\ HookIdle
  /\ ViewerIdle
  /\ \/ pf \in [op : {"migrateV1toV2"}, data : LegacyInputs, slug : SlugArgs, step : {0}, out : {NoData}]
     \/ pf \in [op : {"parseNostreeData"}, raw : RawInputs, slug : SlugArgs, step : {0}, out : {[success |-> FALSE, data |-> NoData]}]

PfMigrate ==
  /\ pf.op = "migrateV1toV2" /\ pf.step = 0
  /\ pf' = [pf EXCEPT !.step = 1, !.out = migrateV1toV2(pf.data, pf.slug)]
  /\ UNCHANGED <<hookVars, viewerVars>>

PfParse ==
  /\ pf.op = "parseNostreeData" /\ pf.step = 0
  /\ pf' = [pf EXCEPT !.step = 1, !.out = parseNostreeData(pf.raw, pf.slug)]
  /\ UNCHANGED <<hookVars, viewerVars>>

NextParse == PfMigrate \/ PfParse

SpecParse == InitParse /\ [][NextParse]_vars

\* C19: for every valid legacy document L and slug s, migrate(L, s) has the
\* current version, the links of L (same elements, same order), the
\* socials, theme and profile of L, treeMeta.slug = s, and isDefault true
\* exactly when s is the default slug.
C19_MigrationPreserves ==
  (pf.op = "migrateV1toV2" /\ pf.step = 1 /\ pf.slug # NULL) =>
    /\ pf.out.version = "2.0"
    /\ pf.out.links = pf.data.links
    /\ pf.out.socials = pf.data.socials /\ pf.out.theme = pf.data.theme /\ pf.out.profile = pf.data.profile
    /\ pf.out.treeMeta.slug = pf.slug
    /\ pf.out.treeMeta.isDefault <=> pf.slug = DEFAULT_SLUG

\* C19 witness: a legacy document of two links, with socials and a profile
\* override, was migrated for a slug that is not the default one.
C19_Witness ==
  /\ pf.op = "migrateV1toV2" /\ pf.step = 1 /\ pf.slug = "my-links"
  /\ Len(pf.data.links) = 2 /\ pf.data.socials # <<>> /\ pf.data.profile # <<>>
  /\ pf.out.links = pf.data.links /\ ~pf.out.treeMeta.isDefault

\* C20: every document a load places into state has the current version (a
\* version 1.0 payload is migrated before it is stored); here for the
\* hook's authoritative document after loads only.
C20_LoadedDocumentIsCurrent == (OnlyLoaded /\ data # NoData) => data.version = "2.0"

(***************************************************************************)
(* SlugTreeViewer.  sv holds the state of the mounted component and, in    *)
(* sv.loads, the runs of its effect that still have something pending:     *)
(*   slug, cachedTree    what the run closed over                          *)
(*   cancelled           the flag the effect's cleanup sets                *)
(*   phase               "tree" until loadTree returns, then "profile"     *)
(*   timer               the overall timeout: "armed", "fired", "cleared"  *)
(*   startedAt           the time the timer was set                        *)
(*   cachedEventTs       the publish timestamp of the event cachedTree     *)
(*                       came from (the code does not keep it)             *)
(***************************************************************************)
OVERALL_TIMEOUT == 6000

Owners == {"pk1", "pk2"}

\* what the owners have published under the slug's d-tag
OwnerDoc(pk, s) == IF pk = "pk1" THEN MkData(s, <<MkLink("l1", TRUE)>>, "dark") ELSE MkData(s, <<MkLink("l2", TRUE)>>, "light")

OwnerContents(pk, s) == IF pk = "pk1" THEN {JsonOf(OwnerDoc(pk, s)), JsonOf(MkLegacy(<<>>, <<MkLink("l1", TRUE)>>, <<>>, "dark")), BadSchemaContent, NotJsonContent, EmptyContent} ELSE {JsonOf(OwnerDoc(pk, s))}

SlugEvents(s) == UNION {[created_at : 1..MaxTs, pubkey : {pk}, content : OwnerContents(pk, s)] : pk \in Owners}

SlugEventSeqs(s) == SeqsUpTo(SlugEvents(s), MaxSlugEvents)

NotFound(s) == "Tree \"" \o s \o "\" not found"

ViewerDelays == {1000, OVERALL_TIMEOUT, TREE_CACHE_TTL}

Cancelled(loads) == [i \in 1..Len(loads) |-> [loads[i] EXCEPT !.cancelled = TRUE, !.timer = IF @ = "armed" THEN "cleared" ELSE @]]

ViewerStep(last) == pf.op = "viewer" /\ pf.steps < MaxViewerSteps /\ pf' = [pf EXCEPT !.steps = @ + 1, !.last = last]

\* the effect runs for slug s: loadTree up to its first await, and the timer
StartLoad(state, s) ==
  LET cachedTree == getCachedTree(treeCache, s, now)
      load == [slug |-> s, cachedTree |-> cachedTree, cachedEventTs |-> IF cachedTree = NoData THEN 0 ELSE CacheEntry(treeCache, s).eventTs, cancelled |-> FALSE, phase |-> "tree", owner |-> NULL, timer |-> "armed", startedAt |-> now]
  IN [state EXCEPT !.slug = s,
                   !.treeData = IF cachedTree = NoData THEN @ ELSE cachedTree,
                   !.status = IF cachedTree = NoData THEN "loading" ELSE "ready",
                   !.loads = Append(Cancelled(@), load)]

\* the page of slug s is opened: a new component, whose effect runs
SvMount(s) ==
  /\ ViewerStep([call |-> "mount"])
  /\ sv' = StartLoad([SvUnmounted EXCEPT !.loads = sv.loads], s)
  /\ UNCHANGED <<hookVars, treeCache, profileCache, now>>

\* the slug prop of the mounted component changes: cleanup, then the effect
SvChangeSlug(s) ==
  /\ sv.slug # NULL /\ sv.slug # s
  /\ ViewerStep([call |-> "change"])
  /\ sv' = StartLoad(sv, s)
  /\ UNCHANGED <<hookVars, treeCache, profileCache, now>>

\* the rest of loadTree, once the query of run i has resolved with events
SvFetchResolve(i, events) ==
  /\ i \in 1..Len(sv.loads)
  /\ sv.loads[i].phase = "tree"
  /\ LET load == sv.loads[i]
         event == latest(events)
         result == parseNostreeData(event.content, load.slug)
         fail(msg) == [sv EXCEPT !.error = msg, !.status = "error", !.loads = RemoveAt(@, i)]
     IN /\ ViewerStep([call |-> "resolve", load |-> load, selected |-> IF events = <<>> THEN <<>> ELSE <<event>>])
        /\ IF load.cancelled THEN sv' = [sv EXCEPT !.loads = RemoveAt(@, i)] /\ UNCHANGED <<treeCache>>
           ELSE IF events = <<>> THEN sv' = (IF load.cachedTree = NoData THEN fail(NotFound(load.slug)) ELSE [sv EXCEPT !.loads = RemoveAt(@, i)]) /\ UNCHANGED <<treeCache>>
           ELSE IF event.content.kind = "empty" THEN sv' = fail("Invalid tree data") /\ UNCHANGED <<treeCache>>
           ELSE IF event.content.kind = "garbage" THEN sv' = fail("Failed to load tree") /\ UNCHANGED <<treeCache>>
           ELSE IF ~result.success THEN sv' = fail("Failed to parse tree data") /\ UNCHANGED <<treeCache>>
           ELSE /\ treeCache' = setCachedTree(treeCache, load.slug, result.data, now, createdAtOr0(event))
                /\ LET cached == profileCacheRead(profileCache, event.pubkey, now)
                   IN sv' = [sv EXCEPT !.treeData = result.data, !.status = "ready",
                                       !.profile = IF cached # NULL THEN cached ELSE @,
                                       !.loads = IF cached # NULL THEN RemoveAt(@, i) ELSE [@ EXCEPT ![i].phase = "profile", ![i].owner = event.pubkey]]
  /\ UNCHANGED <<hookVars, profileCache, now>>

\* the profile query of run i resolves; found: it holds an event whose
\* content is JSON
SvProfileResolve(i, found) ==
  /\ i \in 1..Len(sv.loads)
  /\ sv.loads[i].phase = "profile"
  /\ ViewerStep([call |-> "profile"])
  /\ IF sv.loads[i].cancelled \/ ~found
     THEN sv' = [sv EXCEPT !.loads = RemoveAt(@, i)] /\ UNCHANGED profileCache
     ELSE /\ sv' = [sv EXCEPT !.profile = "profile of " \o sv.loads[i].owner, !.loads = RemoveAt(@, i)]
          /\ profileCache' = profileCacheSet(profileCache, sv.loads[i].owner, "profile of " \o sv.loads[i].owner, now)
  /\ UNCHANGED <<hookVars, treeCache, now>>

\* the overall timeout of run i fires: loadTree has not returned and the
\* cleanup has not run
SvTimeout(i) ==
  /\ i \in 1..Len(sv.loads)
  /\ sv.loads[i].timer = "armed"
  /\ now - sv.loads[i].startedAt >= OVERALL_TIMEOUT
  /\ ViewerStep([call |-> "timeout", load |-> sv.loads[i], selected |-> <<>>])
  /\ sv' = IF sv.loads[i].phase = "tree" /\ ~sv.loads[i].cancelled
           THEN [sv EXCEPT !.error = NotFound(sv.loads[i].slug), !.status = "error", !.loads[i].timer = "fired"]
           ELSE [sv EXCEPT !.loads[i].timer = "fired"]
  /\ UNCHANGED <<hookVars, treeCache, profileCache, now>>

SvAdvance(ms) ==
  /\ ViewerStep([call |-> "advance"])
  /\ now' = now + ms
  /\ UNCHANGED <<hookVars, sv, treeCache, profileCache>>

InitSlug ==
  /\ HookIdle
  /\ ViewerIdle
  /\ pf = [op |-> "viewer", steps |-> 0, last |-> [call |-> "none"]]

NextSlug ==
  \/ \E s \in Slugs : SvMount(s)
  \/ \E s \in Slugs : SvChangeSlug(s)
  \/ \E i \in 1..Len(sv.loads) : \E events \in SlugEventSeqs(sv.loads[i].slug) : SvFetchResolve(i, events)
  \/ \E i \in 1..Len(sv.loads), found \in BOOLEAN : SvProfileResolve(i, found)
  \/ \E i \in 1..Len(sv.loads) : SvTimeout(i)
  \/ \E ms \in ViewerDelays : SvAdvance(ms)

SpecSlug == InitSlug /\ [][NextSlug]_vars

\* the last step was a handler of a run that was not cancelled and that had
\* read a document from the cache when it started
OfCachedLoad(calls) == pf.op = "viewer" /\ pf.last.call \in calls /\ ~pf.last.load.cancelled /\ pf.last.load.cachedTree # NoData

\* C17: when the newest event of a fresh result is valid and its publish
\* timestamp equals that of the event the cached document came from, the
\* cached document stays the one displayed.
C17_TieKeepsCached ==
  (OfCachedLoad({"resolve"}) /\ pf.last.selected # <<>> /\ pf.last.selected[1].content.valid /\ createdAtOr0(pf.last.selected[1]) = pf.last.load.cachedEventTs)
    => sv.treeData = pf.last.load.cachedTree

\* C18: a run that read a document from the cache when it started does not
\* put the viewer into the error status, whatever the query returns and
\* whether or not the overall timeout fires.
C18_CachedLoadNeverErrors == OfCachedLoad({"resolve", "timeout"}) => sv.status # "error"

\* the viewer's treeData is of the current version
ViewerStoresCurrent == sv.treeData # NoData => sv.treeData.version = "2.0"

(***************************************************************************)
(* Serialization and validation, field by field.  A text is modelled by    *)
(* the JSON value it denotes; UNDEFINED is the value undefined.            *)
(***************************************************************************)
UNDEFINED == "undefined"

LinkKeys == {"id", "title", "url", "emoji", "visible", "clicks", "schedule"}

TreeMetaKeys == {"slug", "title", "isDefault", "createdAt"}

\* JSON.stringify(content): a property whose value is undefined is left out
JSONstringify(d) == [json |-> IF "title" \in DOMAIN d.treeMeta /\ d.treeMeta.title = UNDEFINED THEN [d EXCEPT !.treeMeta = Restrict(@, DOMAIN @ \ {"title"})] ELSE d]

JSONparse(text) == text.json

\* createNostreeEvent(content, pubkey, dTag)
createNostreeEvent(content, pk, dTag) == [kind |-> 30078, content |-> JSONstringify(content), tags |-> <<<<"d", dTag>>, <<"p", pk>>>>]

\* LinkSchema: unknown keys are stripped, visible and clicks have defaults
LinkSchema(l) == Restrict(l, DOMAIN l \cap LinkKeys) @@ [visible |-> TRUE, clicks |-> 0]

\* TreeMetaSchema: unknown keys are stripped, isDefault has a default
TreeMetaSchema(m) == Restrict(m, DOMAIN m \cap TreeMetaKeys) @@ [isDefault |-> FALSE]

\* NostreeDataSchemaV2.safeParse(value), as the raw value parseNostreeData reads
safeParseV2(v) ==
  IF v.version = "2.0" /\ "slug" \in DOMAIN v.treeMeta /\ \A i \in 1..Len(v.links) : {"id", "title", "url"} \subseteq DOMAIN v.links[i]
  THEN [kind |-> "json", valid |-> TRUE, doc |-> [v EXCEPT !.treeMeta = TreeMetaSchema(@), !.links = [i \in 1..Len(v.links) |-> LinkSchema(v.links[i])]]]
  ELSE BadSchemaContent

\* documents as the program builds them: the links of the editors, the tree
\* TreeSelector creates, the deletion document, createEmptyTree's title
FullLink == [id |-> "l1", title |-> "Site", url |-> "https://a.example", visible |-> FALSE, clicks |-> 3]

RoundTripLinks == {<<>>} \cup {<<Restrict(FullLink, D)>> : D \in {DOMAIN FullLink, DOMAIN FullLink \ {"clicks"}, DOMAIN FullLink \ {"visible"}, DOMAIN FullLink \ {"url"}}}

RoundTripMetas == {Restrict([slug |-> s, title |-> t, isDefault |-> (s = DEFAULT_SLUG), createdAt |-> 1, deletedAt |-> 2], D) : s \in Slugs, t \in {"My tree", UNDEFINED}, D \in {{"slug"} \cup X : X \in SUBSET {"title", "isDefault", "createdAt", "deletedAt"}}}

RoundTripDocs == [version : {"2.0"}, treeMeta : RoundTripMetas, links : RoundTripLinks, socials : {<<>>}, theme : {"light"}]

InitRoundTrip ==
  /\ HookIdle
  /\ ViewerIdle
  /\ pf \in [op : {"roundtrip"}, data : RoundTripDocs, step : {0}, out : {[success |-> FALSE, data |-> NoData]}]

\* the document is serialized into an event and the event's content parsed
PfRoundTrip ==
  /\ pf.op = "roundtrip" /\ pf.step = 0
  /\ LET event == createNostreeEvent(pf.data, pubkey, slugToDTag(pf.data.treeMeta.slug))
     IN pf' = [pf EXCEPT !.step = 1, !.out = parseNostreeData(safeParseV2(JSONparse(event.content)), pf.data.treeMeta.slug)]
  /\ UNCHANGED <<hookVars, viewerVars>>

NextRoundTrip == PfRoundTrip

SpecRoundTrip == InitRoundTrip /\ [][NextRoundTrip]_vars

\* C21: for every document that passes the schema of the current version,
\* parsing the content serialized for it yields a document equal to it (a
\* property that is undefined counting as a property that is absent).
C21_RoundTrip ==
  (pf.op = "roundtrip" /\ pf.step = 1 /\ safeParseV2(pf.data).valid) =>
    (pf.out.success /\ pf.out.data = JSONparse(JSONstringify(pf.data)))

(***************************************************************************)
(* resolveNip05.  An identifier is the sequence identifier.split("@")      *)
(* yields.  A response is what fetch and response.json() do: fetch rejects *)
(* (network error, timeout of AbortSignal), or resolves with ok or not,    *)
(* and the body is malformed or an object with or without names.  A key    *)
(* value is described by what can be asked of it: its type, its length,    *)
(* its characters, and the entry of names it stands in.                    *)
(***************************************************************************)
KEY_LENGTH == 64

KeyValue(entry, type, length, chars) == [entry |-> entry, type |-> type, length |-> length, chars |-> chars]

\* null, as resolveNip05 returns it
NoKey == KeyValue(NULL, "null", 0, "none")

KeyValues(entry) == {KeyValue(entry, "string", KEY_LENGTH, "lowerhex"), KeyValue(entry, "string", KEY_LENGTH, "upperhex"), KeyValue(entry, "string", KEY_LENGTH, "other"), KeyValue(entry, "string", KEY_LENGTH - 1, "lowerhex"), KeyValue(entry, "number", 0, "none")}

Identifiers == {<<"alice">>, <<"alice", "example.com">>, <<"", "example.com">>, <<"alice", "example.com", "x">>}

NamesObjects == {Restrict([n \in {"alice", "_"} |-> IF n = "alice" THEN a ELSE u], D) : a \in KeyValues("alice"), u \in {KeyValue("_", "string", KEY_LENGTH, "lowerhex")}, D \in SUBSET {"alice", "_"}}

Bodies == {[kind |-> "malformed", names |-> NoFields], [kind |-> "no names", names |-> NoFields]} \cup {[kind |-> "names", names |-> n] : n \in NamesObjects}

Nip05Responses == {[fetch |-> f, ok |-> TRUE, body |-> [kind |-> "malformed", names |-> NoFields]] : f \in {"network error", "timeout"}} \cup [fetch : {"resolved"}, ok : BOOLEAN, body : Bodies]

\* resolveNip05(identifier)
resolveNip05(identifier, response) ==
  IF Len(identifier) # 2 THEN NoKey
  ELSE LET localPart == IF identifier[1] = "" THEN "_" ELSE identifier[1]
       IN IF response.fetch # "resolved" THEN NoKey
          ELSE IF ~response.ok THEN NoKey
          ELSE IF response.body.kind = "malformed" THEN NoKey
          ELSE IF localPart \notin DOMAIN response.body.names THEN NoKey
          ELSE IF response.body.names[localPart].type = "string" /\ response.body.names[localPart].length = KEY_LENGTH THEN response.body.names[localPart]
          ELSE NoKey

InitNip05 ==
  /\ HookIdle
  /\ ViewerIdle
  /\ pf \in [op : {"resolveNip05"}, identifier : Identifiers, response : Nip05Responses, step : {0}, out : {NoKey}]

PfResolveNip05 ==
  /\ pf.op = "resolveNip05" /\ pf.step = 0
  /\ pf' = [pf EXCEPT !.step = 1, !.out = resolveNip05(pf.identifier, pf.response)]
  /\ UNCHANGED <<hookVars, viewerVars>>

NextNip05 == PfResolveNip05

SpecNip05 == InitNip05 /\ [][NextNip05]_vars

\* C23: a result that is not null is a key of 64 lowercase hexadecimal
\* characters, the entry of the requested local part; every failure (network
\* error, timeout, response not ok, malformed body) yields null.
C23_NullOrLowercaseHexKey ==
  (pf.op = "resolveNip05" /\ pf.step = 1) =>
    /\ (pf.response.fetch # "resolved" \/ ~pf.response.ok \/ pf.response.body.kind = "malformed") => pf.out = NoKey
    /\ pf.out # NoKey => (pf.out.type = "string" /\ pf.out.length = KEY_LENGTH /\ pf.out.chars = "lowerhex" /\ pf.out.entry = (IF pf.identifier[1] = "" THEN "_" ELSE pf.identifier[1]))

(***************************************************************************)
(* TreeViewer.resolve.  A path is its first segment, as a prefix and the   *)
(* rest of it split at "@", and the segments after it; prefix "none" is a  *)
(* path with no segment.  pf.relay is what the relays hold of the owner:   *)
(* a sequence of events [dTag, created_at, content].  resolve() runs in    *)
(* steps, one per await; pf.queries lists the relay queries it has issued. *)
(***************************************************************************)
Path(prefix, rest, more) == [prefix |-> prefix, rest |-> rest, more |-> more]

Paths == {Path("@", <<"alice">>, <<"my-links">>), Path("@", <<"alice">>, <<>>), Path("@", <<"bob", "example.com">>, <<"my-links">>), Path("npub1", <<"valid">>, <<>>), Path("npub1", <<"broken">>, <<"my-links">>), Path("hex", <<"pk1">>, <<"my-links">>), Path("other", <<"about">>, <<>>), Path("none", <<>>, <<>>)}

\* parseTreePath(path): NoFields is null
parseTreePath(path) ==
  IF path.prefix = "none" THEN NoFields
  ELSE LET s == IF path.more = <<>> \/ path.more[1] = "" THEN DEFAULT_SLUG ELSE path.more[1]
       IN IF path.prefix = "@" THEN [type |-> "nip05", identifier |-> path.rest, slug |-> s]
          ELSE IF path.prefix = "npub1" THEN [type |-> "npub", identifier |-> path.rest, slug |-> s]
          ELSE IF path.prefix = "hex" THEN [type |-> "hex", identifier |-> path.rest, slug |-> s]
          ELSE NoFields

\* npubToHex(npub): the key decoded, or null
npubToHex(identifier) == IF identifier = <<"valid">> THEN "pk1" ELSE NULL

CouldNotResolve(identifier) == "Could not resolve NIP-05: " \o identifier[1] \o (IF Len(identifier) > 1 THEN "@" \o identifier[2] ELSE "")

\* the events of the relays that match {kinds: [30078], authors, "#d": [dTag]}
Matching(relay, dTag) == SelectSeq(relay, LAMBDA e : e.dTag = dTag)

StoredEvents == [dTag : {slugToDTag(DEFAULT_SLUG), LEGACY_DTAG, slugToDTag("my-links")}, created_at : {1}, content : {JsonOf(MkData("my-links", <<MkLink("l1", TRUE)>>, "light")), JsonOf(MkLegacy(<<>>, <<MkLink("l1", TRUE)>>, <<>>, "dark")), EmptyContent}]

\* the document the engine publishes for slug s
PublishedDoc(s) == MkData(s, <<MkLink("l2", TRUE)>>, "dark")

TvFail(t, msg) == [t EXCEPT !.step = "done", !.status = "error", !.error = msg]

\* variant: a failed identity lookup is reported as a tree that is not found
afterNip05AsNotFound(t, key) ==
  IF key = NoKey THEN [TvFail(t, NotFound(t.parsed.slug)) EXCEPT !.nip05 = "failed"]
  ELSE [t EXCEPT !.nip05 = "resolved", !.resolvedPubkey = "pk1", !.step = "connect"]

\* resolve() after await resolveNip05(identifier)
afterNip05(t, key) ==
  IF key = NoKey THEN [TvFail(t, CouldNotResolve(t.parsed.identifier)) EXCEPT !.nip05 = "failed"]
  ELSE [t EXCEPT !.nip05 = "resolved", !.resolvedPubkey = "pk1", !.step = "connect"]

\* the newest of the events is parsed: the document, or NoData
newestTree(events, s) ==
  IF events = <<>> \/ latest(events).content.kind = "empty" THEN [threw |-> FALSE, data |-> NoData]
  ELSE IF latest(events).content.kind = "garbage" THEN [threw |-> TRUE, data |-> NoData]
  ELSE [threw |-> FALSE, data |-> parseNostreeData(latest(events).content, s).data]

\* the end of resolve(): the tree events, after the legacy ones if any
treeResult(t, treeEvents) ==
  LET r == newestTree(treeEvents, t.parsed.slug)
  IN IF r.threw THEN TvFail(t, "Failed to load tree")
     ELSE IF r.data # NoData THEN [t EXCEPT !.step = "done", !.status = "ready", !.treeData = r.data]
     ELSE TvFail(t, NotFound(t.parsed.slug))

InitTree ==
  /\ HookIdle
  /\ ViewerIdle
  /\ pf \in [op : {"tree"}, path : Paths, relay : SeqsUpTo(StoredEvents, MaxStored), published : {NULL}, step : {"idle"}, parsed : {NoFields}, nip05 : {"none"}, resolvedPubkey : {NULL}, status : {"loading"}, error : {NULL}, tvSlug : {DEFAULT_SLUG}, treeData : {NoData}, profile : {"none"}, queries : {<<>>}]

\* the engine publishes a document for (pk1, s) and the relays accept it
TvPublish(s) ==
  /\ pf.op = "tree" /\ pf.step = "idle" /\ pf.published = NULL
  /\ pf' = [pf EXCEPT !.published = s, !.relay = Append(@, [dTag |-> dTagOf(s), created_at |-> 2, content |-> JsonOf(PublishedDoc(s))])]
  /\ UNCHANGED <<hookVars, viewerVars>>

\* the effect runs resolve(), up to its first await
TvStart ==
  /\ pf.op = "tree" /\ pf.step = "idle"
  /\ LET parsed == parseTreePath(pf.path)
         t == [pf EXCEPT !.status = "loading", !.parsed = parsed]
     IN pf' = IF parsed = NoFields THEN TvFail(t, "Invalid URL format")
              ELSE IF parsed.type = "nip05" THEN [t EXCEPT !.tvSlug = parsed.slug, !.step = "nip05"]
              ELSE IF parsed.type = "npub" /\ npubToHex(parsed.identifier) = NULL THEN TvFail([t EXCEPT !.tvSlug = parsed.slug], "Invalid npub")
              ELSE [t EXCEPT !.tvSlug = parsed.slug, !.resolvedPubkey = "pk1", !.step = "connect"]
  /\ UNCHANGED <<hookVars, viewerVars>>

TvNip05(response) ==
  /\ pf.op = "tree" /\ pf.step = "nip05"
  /\ pf' = afterNip05(pf, resolveNip05(IF Len(pf.parsed.identifier) > 1 THEN pf.parsed.identifier ELSE pf.parsed.identifier \o <<"nostree.me">>, response))
  /\ UNCHANGED <<hookVars, viewerVars>>

\* after ndk.connect() and the delay: the profile, from the cache or queried
TvConnected(cached) ==
  /\ pf.op = "tree" /\ pf.step = "connect"
  /\ pf' = IF cached THEN [pf EXCEPT !.profile = "cached", !.step = "tree", !.queries = Append(@, slugToDTag(pf.parsed.slug))]
            ELSE [pf EXCEPT !.step = "profile", !.queries = Append(@, "kind 0")]
  /\ UNCHANGED <<hookVars, viewerVars>>

\* the profile query resolves: no event, an event with JSON, or one whose
\* content JSON.parse rejects
TvProfile(result) ==
  /\ pf.op = "tree" /\ pf.step = "profile"
  /\ pf' = IF result = "garbage" THEN [TvFail(pf, "Failed to load tree") EXCEPT !.profile = result]
            ELSE [pf EXCEPT !.profile = result, !.step = "tree", !.queries = Append(@, slugToDTag(pf.parsed.slug))]
  /\ UNCHANGED <<hookVars, viewerVars>>

\* the tree query resolves
TvTree ==
  /\ pf.op = "tree" /\ pf.step = "tree"
  /\ LET treeEvents == Matching(pf.relay, slugToDTag(pf.parsed.slug))
     IN pf' = IF treeEvents = <<>> /\ pf.parsed.slug = DEFAULT_SLUG
              THEN [pf EXCEPT !.step = "legacy", !.queries = Append(@, LEGACY_DTAG)]
              ELSE treeResult(pf, treeEvents)
  /\ UNCHANGED <<hookVars, viewerVars>>

\* the legacy query resolves (the tree query had no event)
TvLegacy ==
  /\ pf.op = "tree" /\ pf.step = "legacy"
  /\ LET r == newestTree(Matching(pf.relay, LEGACY_DTAG), DEFAULT_SLUG)
     IN pf' = IF r.threw THEN TvFail(pf, "Failed to load tree")
              ELSE IF r.data # NoData THEN [pf EXCEPT !.step = "done", !.status = "ready", !.treeData = r.data]
              ELSE treeResult(pf, <<>>)
  /\ UNCHANGED <<hookVars, viewerVars>>

TreeNip05Responses == {r \in Nip05Responses : r.body.kind # "names" \/ (DOMAIN r.body.names = {"alice"} /\ r.body.names["alice"].chars = "lowerhex")}

NextTree ==
  \/ \E s \in Slugs : TvPublish(s)
  \/ TvStart
  \/ \E response \in TreeNip05Responses : TvNip05(response)
  \/ \E cached \in BOOLEAN : TvConnected(cached)
  \/ \E result \in {"none", "found", "garbage"} : TvProfile(result)
  \/ TvTree
  \/ TvLegacy

SpecTree == InitTree /\ [][NextTree]_vars

\* C22: when the identity lookup of a verified-identity path fails, resolve
\* ends in the error status with the message of the failed lookup, no relay
\* query has been issued, and the message is not the one of a tree that is
\* not found; when the identity resolves and the relays hold no event for
\* the address, resolve ends with the not-found message.
C22_FailedLookupIsNotNotFound ==
  pf.op = "tree" =>
    /\ pf.nip05 = "failed" => (pf.step = "done" /\ pf.status = "error" /\ pf.error = CouldNotResolve(pf.parsed.identifier) /\ pf.error # NotFound(pf.parsed.slug) /\ pf.queries = <<>>)
    /\ (pf.nip05 = "resolved" /\ pf.step = "done" /\ pf.profile # "garbage" /\ Matching(pf.relay, slugToDTag(pf.parsed.slug)) = <<>> /\ (pf.parsed.slug = DEFAULT_SLUG => Matching(pf.relay, LEGACY_DTAG) = <<>>))
         => (pf.status = "error" /\ pf.error = NotFound(pf.parsed.slug))

\* C22 witness: the lookup of "@alice/my-links" has failed.
C22_Witness == pf.op = "tree" /\ pf.path = Path("@", <<"alice">>, <<"my-links">>) /\ pf.nip05 = "failed" /\ pf.status = "error" /\ pf.queries = <<>>

\* C24: a document the engine has published for (owner, slug) is the one a
\* later resolution of a path of that owner and slug displays.
C24_PublishedIsResolved ==
  (pf.op = "tree" /\ pf.step = "done" /\ pf.parsed # NoFields /\ pf.resolvedPubkey = "pk1" /\ pf.profile # "garbage" /\ pf.published = pf.parsed.slug)
    => (pf.status = "ready" /\ pf.treeData = PublishedDoc(pf.published))

(***************************************************************************)
(* fetchUserTrees.  pf.events is what the relays return for the author:    *)
(* fetchEventsWithTimeout collects every event of every relay, so a key    *)
(* may come with several events.  A content is the JSON text of a value,   *)
(* a text that is not JSON, or the empty string.                           *)
(***************************************************************************)
MaxTreeEvents == 2

NotJsonText == [garbage |-> TRUE]

EmptyText == [empty |-> TRUE]

\* dTagToSlug(dTag): the part after "nostree/", "default" for the legacy key
dTagToSlug(dTag) ==
  IF \E s \in Slugs \cup {""} : dTag = slugToDTag(s) THEN CHOOSE s \in Slugs \cup {""} : dTag = slugToDTag(s)
  ELSE IF dTag = LEGACY_DTAG THEN DEFAULT_SLUG
  ELSE NULL

isNostreeDTag(dTag) == (\E s \in Slugs \cup {""} : dTag = slugToDTag(s)) \/ dTag = LEGACY_DTAG

\* emptyData of handleDeleteTree(slug)
deletionDocument(s) == [version |-> "2.0", treeMeta |-> [slug |-> s, isDefault |-> FALSE, deletedAt |-> 3], links |-> <<>>, socials |-> <<>>, theme |-> "light"]

\* a tree as createEmptyTree and the editors leave it
liveDocument(s) == [version |-> "2.0", treeMeta |-> [slug |-> s, isDefault |-> (s = DEFAULT_SLUG)], links |-> <<FullLink>>, socials |-> <<>>, theme |-> "light"]

TreeDTags == {slugToDTag(DEFAULT_SLUG), LEGACY_DTAG, slugToDTag("my-links"), slugToDTag(""), "other-app"}

TreeContentsOf(dTag) == IF dTagToSlug(dTag) \in Slugs THEN {JSONstringify(liveDocument(dTagToSlug(dTag))), JSONstringify(deletionDocument(dTagToSlug(dTag))), NotJsonText, EmptyText} ELSE {EmptyText}

TreeEvents == UNION {[dTag : {t}, created_at : {1, 2}, content : TreeContentsOf(t)] : t \in TreeDTags}

\* the content parses and data?.treeMeta?.deletedAt is truthy
markedDeleted(content) == "json" \in DOMAIN content /\ "deletedAt" \in DOMAIN JSONparse(content).treeMeta

\* the event is pushed onto trees
listed(event) == isNostreeDTag(event.dTag) /\ dTagToSlug(event.dTag) \notin {NULL, ""} /\ ~markedDeleted(event.content)

\* the comparator of trees.sort
treeOrder(a, b) == IF a.slug = DEFAULT_SLUG THEN 0 - 1 ELSE IF b.slug = DEFAULT_SLUG THEN 1 ELSE a.createdAt - b.createdAt

RECURSIVE InsertTree(_, _)
InsertTree(sorted, e) ==
  IF sorted = <<>> THEN <<e>>
  ELSE IF treeOrder(sorted[Len(sorted)], e) <= 0 THEN Append(sorted, e)
  ELSE Append(InsertTree(SubSeq(sorted, 1, Len(sorted) - 1), e), sorted[Len(sorted)])

RECURSIVE sortTrees(_)
sortTrees(trees) == IF trees = <<>> THEN <<>> ELSE InsertTree(sortTrees(SubSeq(trees, 1, Len(trees) - 1)), trees[Len(trees)])

\* fetchUserTrees(pubkey), given the events the query returns
fetchUserTrees(events) ==
  LET kept == SelectSeq(events, listed)
  IN sortTrees([i \in 1..Len(kept) |-> [slug |-> dTagToSlug(kept[i].dTag), dTag |-> kept[i].dTag, createdAt |-> kept[i].created_at]])

InitTrees ==
  /\ HookIdle
  /\ ViewerIdle
  /\ pf \in [op : {"trees"}, events : SeqsUpTo(TreeEvents, MaxTreeEvents), deleted : {{}}, step : {0}, out : {<<>>}]

\* handleDeleteTree(slug): the deletion document is published under
\* slugToDTag(slug) and the relays return it from then on
PfDeleteTree(s) ==
  /\ pf.op = "trees" /\ pf.step = 0 /\ s \notin pf.deleted
  /\ pf' = [pf EXCEPT !.deleted = @ \cup {s}, !.events = Append(@, [dTag |-> slugToDTag(s), created_at |-> 3, content |-> createNostreeEvent(deletionDocument(s), "pk1", slugToDTag(s)).content])]
  /\ UNCHANGED <<hookVars, viewerVars>>

PfFetchUserTrees ==
  /\ pf.op = "trees" /\ pf.step = 0
  /\ pf' = [pf EXCEPT !.step = 1, !.out = fetchUserTrees(pf.events)]
  /\ UNCHANGED <<hookVars, viewerVars>>

NextTrees ==
  \/ \E s \in Slugs : PfDeleteTree(s)
  \/ PfFetchUserTrees

SpecTrees == InitTrees /\ [][NextTrees]_vars

\* the events of the newest timestamp among those stored under dTag
NewestOfKey(events, dTag) == {i \in 1..Len(events) : events[i].dTag = dTag /\ \A j \in 1..Len(events) : events[j].dTag = dTag => events[j].created_at <= events[i].created_at}

\* C29: fetchUserTrees lists a slug at most once, and only when the newest
\* event stored under the listed key carries no deletion marker; so a slug
\* whose deletion document is the newest of its key is not listed.
C29_ListedOnceAndLive ==
  (pf.op = "trees" /\ pf.step = 1) =>
    /\ \A i, j \in 1..Len(pf.out) : pf.out[i].slug = pf.out[j].slug => i = j
    /\ \A i \in 1..Len(pf.out) : \A k \in NewestOfKey(pf.events, pf.out[i].dTag) : ~markedDeleted(pf.events[k].content)

\* C30: a move never discards a link: for every links array, link id and
\* target, a group id that is not in the array included, the multiset of
\* links (root and groups) after the move is the multiset before it, in
\* the optimistic projection and in the submitted document.
C30_MoveKeepsLinks ==
  (pf.op \in {"moveToGroup", "move_to_group"} /\ pf.step >= 1) => LinkBag(pf.out1.links) = LinkBag(pf.links)

\* C26: publishing requires a signer: a mutation called while no signer is
\* set (the session never had one, or logout has removed it) sends nothing
\* to any relay (no publish is put in flight), raises the save failure,
\* leaves the authoritative document unchanged and leaves isSaving false
\* (the early return of moveToGroup, which publishes nothing, changes
\* nothing).
C26_NoSignerNoPublish ==
  [][(MutationCall /\ ~signer) =>
       /\ publishes' = publishes
       /\ data' = data
       /\ \/ toast' = SaveFailedToast("publishData") /\ isSaving' = FALSE
          \/ UNCHANGED <<pendingOptimistic, toast, isSaving>>]_vars

\* C26 witness: after a logout, addLink on a loaded document has raised the
\* save failure; nothing is in flight and isSaving is false.
C26_Witness == ~signer /\ toast = SaveFailedToast("addLink") /\ ~isSaving /\ publishes = <<>> /\ ops = 2 /\ uuids = 1 /\ data # NoData /\ pendingOptimistic = <<[type |-> "add", link |-> MkLink("u1", TRUE)]>>

\* C28: isSaving is true whenever a publish of the hook is in flight, and
\* false once none is.
C28_SavingTracksInFlight == isSaving <=> (\E i \in 1..Len(publishes) : publishes[i].live)

(***************************************************************************)
(* The link and group mutations side by side.  pf.call is a call of a      *)
(* mutation with its arguments; it is applied to the document pf.doc, its  *)
(* publish succeeds (data becomes the submitted document), and the same    *)
(* call is made once more.  n counts the crypto.randomUUID() calls so far. *)
(***************************************************************************)
MutationCallOf(name, id, groupId, item, newOrder) == [name |-> name, id |-> id, groupId |-> groupId, item |-> item, links |-> newOrder]

\* the group the editor passes to updateGroup: the group with a field edited
EditedGroup(ls, id) == IF id \in GroupIds(ls) THEN [FindById(Groups(ls), id) EXCEPT !.visible = FALSE] ELSE [MkGroup(id, <<>>) EXCEPT !.visible = FALSE]

NestedOrders(ls, id) == IF id \in GroupIds(ls) THEN Reorderings(FindById(Groups(ls), id).links) ELSE {<<MkLink("a", TRUE)>>}

MutationCalls(ls) ==
  {MutationCallOf("reorderLinks", NULL, NULL, NoFields, o) : o \in Reorderings(ls)}
    \cup {MutationCallOf(name, NULL, NULL, NoFields, <<>>) : name \in {"addLink", "addGroup"}}
    \cup {MutationCallOf("updateLink", NULL, NULL, MkLink("a", FALSE), <<>>)}
    \cup {MutationCallOf(name, id, NULL, NoFields, <<>>) : name \in {"deleteLink", "toggleVisibility", "deleteGroup"}, id \in {"a", "g"}}
    \cup {MutationCallOf("updateGroup", NULL, NULL, EditedGroup(ls, "g"), <<>>)}
    \cup {MutationCallOf("toggleGroupCollapse", NULL, "g", NoFields, <<>>)}
    \cup {MutationCallOf("moveToGroup", "a", groupId, NoFields, <<>>) : groupId \in {NULL, "g", "h"}}
    \cup {MutationCallOf("reorderWithinGroup", NULL, "g", NoFields, o) : o \in NestedOrders(ls, "g")}

\* the id crypto.randomUUID() returns on its (n + 1)th call
randomUUID(n) == "u" \o ToString(n + 1)

\* the action the mutation passes to applyOptimistic
optimisticAction(c, n) ==
  CASE c.name = "reorderLinks" -> [type |-> "reorder", links |-> c.links]
    [] c.name = "addLink" -> [type |-> "add", link |-> MkLink(randomUUID(n), TRUE)]
    [] c.name = "updateLink" -> [type |-> "update", link |-> c.item]
    [] c.name = "deleteLink" -> [type |-> "delete", id |-> c.id]
    [] c.name = "toggleVisibility" -> [type |-> "toggle_visibility", id |-> c.id]
    [] c.name = "addGroup" -> [type |-> "add_group", group |-> MkGroup(randomUUID(n), <<>>)]
    [] c.name = "updateGroup" -> [type |-> "update_group", group |-> c.item]
    [] c.name = "deleteGroup" -> [type |-> "delete", id |-> c.id]
    [] c.name = "toggleGroupCollapse" -> [type |-> "toggle_group_collapse", groupId |-> c.groupId]
    [] c.name = "moveToGroup" -> [type |-> "move_to_group", linkId |-> c.id, groupId |-> c.groupId]
    [] c.name = "reorderWithinGroup" -> [type |-> "reorder_within_group", groupId |-> c.groupId, links |-> c.links]

\* the links the mutation passes to publishData
submittedLinks(currentLinks, c, n) ==
  CASE c.name = "reorderLinks" -> c.links
    [] c.name = "addLink" -> addLinkLinks(currentLinks, MkLink(randomUUID(n), TRUE))
    [] c.name = "updateLink" -> updateLinkLinks(currentLinks, c.item)
    [] c.name = "deleteLink" -> deleteLinkLinks(currentLinks, c.id)
    [] c.name = "toggleVisibility" -> toggleVisibilityLinks(currentLinks, c.id)
    [] c.name = "addGroup" -> addGroupLinks(currentLinks, MkGroup(randomUUID(n), <<>>))
    [] c.name = "updateGroup" -> updateGroupLinks(currentLinks, c.item)
    [] c.name = "deleteGroup" -> deleteGroupLinks(currentLinks, c.id)
    [] c.name = "toggleGroupCollapse" -> toggleGroupCollapseLinks(currentLinks, c.groupId)
    [] c.name = "moveToGroup" -> moveToGroupLinks(currentLinks, c.id, c.groupId)
    [] c.name = "reorderWithinGroup" -> reorderWithinGroupLinks(currentLinks, c.groupId, c.links)

\* FALSE on the early return of moveToGroup
reachesPublish(currentLinks, c) == c.name = "moveToGroup" => moveToGroupFound(currentLinks, c.id)

\* one call of the mutation on document d: the links the UI shows while the
\* transition lasts, the document submitted, and data after the publish
\* has succeeded
mutate(d, c, n) ==
  IF reachesPublish(LinksOf(d), c)
  THEN [published |-> TRUE, optimistic |-> linkReducer(LinksOf(d), optimisticAction(c, n)), submitted |-> updatedLinksData(d, slug, submittedLinks(LinksOf(d), c, n)), data |-> updatedLinksData(d, slug, submittedLinks(LinksOf(d), c, n))]
  ELSE [published |-> FALSE, optimistic |-> LinksOf(d), submitted |-> NoData, data |-> d]

NoCall == [published |-> FALSE, optimistic |-> <<>>, submitted |-> NoData, data |-> NoData]

InitMutations ==
  /\ HookIdle
  /\ ViewerIdle
  /\ \E ls \in LinkArrays : \E c \in MutationCalls(ls) : pf = [op |-> "mutation", doc |-> MkData(slug, ls, NewTreeTheme), call |-> c, step |-> 0, out1 |-> NoCall, out2 |-> NoCall]

\* the call, and then the same call again on the document the first left
PfMutate ==
  /\ pf.op = "mutation"
  /\ pf.step < 2
  /\ pf' = IF pf.step = 0
           THEN [pf EXCEPT !.step = 1, !.out1 = mutate(pf.doc, pf.call, 0)]
           ELSE [pf EXCEPT !.step = 2, !.out2 = mutate(pf.out1.data, pf.call, IF pf.call.name \in {"addLink", "addGroup"} THEN 1 ELSE 0)]
  /\ UNCHANGED <<hookVars, viewerVars>>

NextMutations == PfMutate

SpecMutations == InitMutations /\ [][NextMutations]_vars

\* C25: every mutation is idempotent to replay: the same call made again
\* after it has succeeded, with nothing else changed, submits the document
\* the first call submitted and leaves the authoritative document as the
\* first call left it.
C25_ReplayIdempotent ==
  (pf.op = "mutation" /\ pf.step = 2) => (pf.out2.data = pf.out1.data /\ (pf.out2.published => pf.out2.submitted = pf.out1.submitted))

\* C27: for every link and group mutation, the links linkReducer gives for
\* the mutation's optimistic action are the links of the document the
\* mutation submits.
C27_ProjectionIsSubmitted ==
  (pf.op = "mutation" /\ pf.step >= 1 /\ pf.out1.published) => pf.out1.optimistic = pf.out1.submitted.links

====
